---- MODULE Spec2Model ----
(***************************************************************************)
(* Signal analysis pipeline of chg073/AIA.                                 *)
(*   Spec, FairSpec  the provider invoker (analyzeStock, analyzeWithGemini, *)
(*                   analyzeWithGroq, listAvailableModels) as a state       *)
(*                   machine whose steps are the stretches of code between  *)
(*                   two awaits;                                            *)
(*   RankSpec        rankModels on bounded model lists;                     *)
(*   SanSpec         sanitizeAnalysis on bounded parsed objects;            *)
(*   EnrichSpec      buildPrompt, sanitizeAnalysis, enrichWithIndicators,   *)
(*                   with the indicator calculators on bounded histories;   *)
(*   ParseSpec       parseJsonResponse, character by character, on          *)
(*                   truncated flat objects;                                *)
(*   RouteSpec       the POST handler of /api/analyze with the market-data  *)
(*                   cache and the suggestion store, one request at a time; *)
(*   RaceSpec        the same handler run by requests that interleave.      *)
(***************************************************************************)
EXTENDS Integers, Sequences, FiniteSets, TLC

VARIABLES
    provider,   \* process.env.AI_PROVIDER as read by getProvider
    keyOk,      \* whether the provider's API key is configured
    pc,         \* position of analyzeStock: start, list_wait, gen_wait, groq_wait, done, failed (idle: not called)
    available,  \* models returned by listAvailableModels
    candidates, \* ranked ids, rankModels(available)
    mi,         \* index in candidates of the model being tried (outer loop)
    vi,         \* index in VERSIONS of the revision being tried (inner loop)
    lv,         \* index in VERSIONS of the revision listAvailableModels is querying
    calls,      \* every HTTP call issued so far, in order, with its response
    errors,     \* the errors array of analyzeWithGemini
    chosen,     \* the generateContent call whose text was taken, or NoCall
    outcome,    \* none, result, or the kind of error thrown
    named,      \* the model ids the message of the thrown error lists
    thrown,     \* the response status and body the message of the thrown error carries
    reply,      \* the text a provider returned (raw), with the members it held complete before it was cut
    parsed,     \* what parseJsonResponse did with reply
    arg,        \* parsed value handed to sanitizeAnalysis
    sres,       \* what sanitizeAnalysis did with arg
    sres2,      \* what sanitizeAnalysis did with its own result
    history,    \* request.stockData: the closes of the daily bars, oldest first
    prompt,     \* the Technical Indicators lines of the text buildPrompt returned
    final,      \* what enrichWithIndicators returned
    spc,        \* position of the sanitizer harness: parse, parsed, build, call, done, again, enriched (off: not running)
    now,        \* Date.now(), in hours
    cache,      \* the rows of stock_data_cache for the symbol, by data_type
    suggestions, \* the rows of suggestions for the user and the symbol, in insertion order
    req         \* the locals and position of each running POST /api/analyze

chainVars ==
    <<provider, keyOk, pc, available, candidates, mi, vi, lv, calls, errors, chosen, outcome, named, thrown>>
sanVars == <<reply, parsed, arg, sres, sres2, history, prompt, final, spc>>
routeVars == <<now, cache, suggestions, req>>
vars == <<chainVars, sanVars, routeVars>>

\* ------------------------------------------------------------------ bounds

\* Longest model list a listing response carries.
MaxModels == 3

\* Most fields a parsed object handed to the sanitizer carries.
MaxFields == 2

\* ------------------------------------------------------------ small helpers

Last(s) == s[Len(s)]

Front(s) == SubSeq(s, 1, Len(s) - 1)

\* All sequences without repetition over S of length at most n.
SeqsOver(S, n) ==
    {s \in UNION {[1..k -> S] : k \in 0..n} : \A i, j \in DOMAIN s : i # j => s[i] # s[j]}

\* ------------------------------------------------------------ model directory

\* A model descriptor as the listing returns it. name is the id with the
\* "models/" prefix already removed; version is the number the id carries times
\* ten (0 when the id has no gemini-<n> part); marks are the substrings, among
\* those the code tests with includes(), that the lowercased id contains;
\* gen is supportedGenerationMethods.includes("generateContent").
Catalog ==
    { [name |-> "gemini-2.0-flash", version |-> 20, marks |-> {"flash"}, gen |-> TRUE],
      [name |-> "gemini-2.5-pro-preview", version |-> 25, marks |-> {"preview"}, gen |-> TRUE],
      [name |-> "gemini-1.5-flash-latest", version |-> 15, marks |-> {"latest", "flash"}, gen |-> TRUE],
      [name |-> "text-embedding-004", version |-> 0, marks |-> {"embedding"}, gen |-> FALSE] }

EXCLUDE_PATTERNS == {"tts", "imagen", "veo", "embedding", "aqa", "bisheng"}

\* The filter of rankModels.
IsTextModel(m) == m.gen /\ m.marks \cap EXCLUDE_PATTERNS = {}

\* The stability part of the score:
\* if (!preview && !exp) s += 50; else if (preview) s += 20;
stability(m) ==
    IF "preview" \notin m.marks /\ "exp" \notin m.marks THEN 50
    ELSE IF "preview" \in m.marks THEN 20 ELSE 0

\* The score of rankModels (version * 1000 with version carried times ten).
score(m) ==
    (IF "latest" \in m.marks THEN 10000 ELSE 0)
    + m.version * 100
    + (IF "flash" \in m.marks THEN 100 ELSE 0)
    + stability(m)

RECURSIVE SortByScore_Unstable(_)
\* A descending sort that places an element before the earlier ones of equal
\* score.
SortByScore_Unstable(s) ==
    IF s = <<>> THEN <<>>
    ELSE LET done == SortByScore_Unstable(Front(s))
             x == Last(s)
             k == Cardinality({i \in DOMAIN done : score(done[i]) > score(x)})
         IN SubSeq(done, 1, k) \o <<x>> \o SubSeq(done, k + 1, Len(done))

\* Array.prototype.sort with (a, b) => score(b) - score(a): stable, descending.
RECURSIVE SortByScore(_)
SortByScore(s) ==
    IF s = <<>> THEN <<>>
    ELSE LET done == SortByScore(Front(s))
             x == Last(s)
             k == Cardinality({i \in DOMAIN done : score(done[i]) >= score(x)})
         IN SubSeq(done, 1, k) \o <<x>> \o SubSeq(done, k + 1, Len(done))

rankModels(avail) ==
    LET textModels == SelectSeq(avail, IsTextModel)
        sorted == SortByScore(textModels)
    IN [i \in DOMAIN sorted |-> sorted[i].name]

\* ------------------------------------------------------------ parsed values

\* A value of a parsed object: t is absent (the key is missing: undefined),
\* null, str, num, nan (the number NaN), bool, arr or obj. A string is the
\* sequence s of its pieces, a piece being one whitespace character (" ") or a
\* run of other characters, so "" is <<>>. A number is carried as the integer
\* n in the unit of its field: halves for confidence (n stands for n / 2),
\* the unit of the closes for an indicator value. An array is carried by its
\* length n.
Val(t, s, n) == [t |-> t, s |-> s, n |-> n]

Absent == Val("absent", <<>>, 0)

Null == Val("null", <<>>, 0)

Str(s) == Val("str", s, 0)

Num(n) == Val("num", <<>>, n)

NaN == Val("nan", <<>>, 0)

Arr(n) == Val("arr", <<>>, n)

Obj == Val("obj", <<>>, 0)

Bool == Val("bool", <<>>, 0)

WS == {" "}

\* The keys of technical_summary that enrichWithIndicators sets.
IndicatorKeys ==
    {"bb_upper", "bb_lower", "bb_middle", "sma_20", "sma_50", "sma_200", "rsi", "macd"}

\* A technical_summary in which the model echoed no indicator.
NoEcho == [k \in IndicatorKeys |-> Absent]

\* The technical_summary of a parsed object: t as for a value, and when t is
\* obj the keys the sanitizer reads, with ind holding the indicator keys the
\* model echoed (the other own keys of the object).
Summary(t, trend, sup, res, key) ==
    [t |-> t, trend |-> trend, support_levels |-> sup, resistance_levels |-> res,
     key_indicators |-> key, ind |-> NoEcho]

NoSummary == Summary("absent", Absent, Absent, Absent, Absent)

\* The parsed value JSON.parse returned: kind is object, or null, or other (a
\* number, a string, an array: reading a key of it gives undefined).
EmptyObject ==
    [kind |-> "object",
     symbol |-> Absent, signal_level |-> Absent, action |-> Absent,
     suggested_buy_price |-> Absent, suggested_sell_price |-> Absent,
     stop_loss_price |-> Absent, risk_estimation |-> Absent, reasoning |-> Absent,
     technical_summary |-> NoSummary, confidence |-> Absent, time_horizon |-> Absent]

\* request.symbol
SYMBOL == <<"AAPL">>

\* request.quote.price as toFixed(2) prints it
PRICE_TEXT == <<"100.00">>

\* ------------------------------------------------------------ sanitizeAnalysis

VALID_SIGNALS == {<<"weak">>, <<"medium">>, <<"strong">>, <<"very_strong">>}

VALID_ACTIONS == {<<"buy">>, <<"sell">>, <<"hold">>, <<"watch">>}

VALID_RISKS == {<<"low">>, <<"moderate">>, <<"high">>, <<"very_high">>}

VALID_TRENDS == {<<"bullish">>, <<"bearish">>, <<"neutral">>, <<"sideways">>}

\* v ?? d
Coalesce(v, d) == IF v.t \in {"absent", "null"} THEN d ELSE v

\* VALID.includes(v): strict equality with one of the strings.
Includes(valid, v) == v.t = "str" /\ v.s \in valid

\* An enum field with its validation left out: raw.field ?? default.
EnumField_Unchecked(valid, v, dflt) == Coalesce(v, Str(dflt))

\* VALID.includes(raw.field) ? raw.field : default
EnumField(valid, v, dflt) == IF Includes(valid, v) THEN v ELSE Str(dflt)

RECURSIVE TrimStart(_)
TrimStart(s) == IF s # <<>> /\ Head(s) \in WS THEN TrimStart(Tail(s)) ELSE s

RECURSIVE TrimEnd(_)
TrimEnd(s) == IF s # <<>> /\ Last(s) \in WS THEN TrimEnd(Front(s)) ELSE s

\* A trim that removes one whitespace character at each end only.
Trim_Once(s) ==
    LET a == IF s # <<>> /\ Head(s) \in WS THEN Tail(s) ELSE s
    IN IF a # <<>> /\ Last(a) \in WS THEN Front(a) ELSE a

\* String.prototype.trim
Trim(s) == TrimEnd(TrimStart(s))

\* The sentence synthesized for a missing reasoning; raw.signal_level ?? "weak"
\* is interpolated as the template literal prints it.
SynthReasoning(raw, symbol, priceText) ==
    LET sig == Coalesce(raw.signal_level, Str(<<"weak">>))
        sigText == IF sig.t = "str" THEN sig.s ELSE <<"(printed value)">>
    IN <<"Analysis", " ", "for", " ">> \o symbol \o <<" ", "at", " ", "$">> \o priceText
       \o <<".", " ", "Signal:", " ">> \o sigText
       \o <<".", " ", "No detailed reasoning was returned by the AI model.">>

\* v?.trim() || dflt: undefined for a nullish v, a TypeError for a v that is
\* no string (it has no trim method), else the trimmed string unless empty.
TrimOr(v, dflt) ==
    IF v.t \in {"absent", "null"} THEN [threw |-> FALSE, v |-> Str(dflt)]
    ELSE IF v.t # "str" THEN [threw |-> TRUE, v |-> Absent]
    ELSE IF Trim(v.s) # <<>> THEN [threw |-> FALSE, v |-> Str(Trim(v.s))]
    ELSE [threw |-> FALSE, v |-> Str(dflt)]

\* typeof c === "number" ? Math.min(1, Math.max(0, c)) : 0.5
Confidence(c) ==
    IF c.t = "nan" THEN NaN
    ELSE IF c.t = "num" THEN Num(IF c.n < 0 THEN 0 ELSE IF c.n > 2 THEN 2 ELSE c.n)
    ELSE Num(1)

\* raw.technical_summary?.key: undefined unless technical_summary is an
\* object holding the key.
SummaryKey(ts, key) == IF ts.t = "obj" THEN ts[key] ELSE Absent

\* The technical_summary literal: the four validated keys, then
\* ...raw.technical_summary, whose own keys replace them.
SanitizedSummary(ts) ==
    LET checked ==
            [trend |-> EnumField(VALID_TRENDS, SummaryKey(ts, "trend"), <<"neutral">>),
             support_levels |->
                 IF SummaryKey(ts, "support_levels").t = "arr"
                 THEN SummaryKey(ts, "support_levels") ELSE Arr(0),
             resistance_levels |->
                 IF SummaryKey(ts, "resistance_levels").t = "arr"
                 THEN SummaryKey(ts, "resistance_levels") ELSE Arr(0),
             key_indicators |-> Coalesce(SummaryKey(ts, "key_indicators"), Str(<<>>))]
        own(k) == IF ts.t = "obj" /\ ts[k].t # "absent" THEN ts[k] ELSE checked[k]
    IN [trend |-> own("trend"),
        support_levels |-> own("support_levels"),
        resistance_levels |-> own("resistance_levels"),
        key_indicators |-> own("key_indicators"),
        ind |-> IF ts.t = "obj" THEN ts.ind ELSE NoEcho]

NoValue == [kind |-> "none"]

NoResult == [threw |-> FALSE, value |-> NoValue]

\* The object sanitizeAnalysis returned, read as a parsed object again: its
\* technical_summary is an object holding the keys of the result.
AsParsed(v) ==
    [k \in DOMAIN v |->
        IF k = "technical_summary"
        THEN [t |-> "obj", trend |-> v[k].trend, support_levels |-> v[k].support_levels,
              resistance_levels |-> v[k].resistance_levels,
              key_indicators |-> v[k].key_indicators, ind |-> v[k].ind]
        ELSE v[k]]

\* The AnalysisResponse type with the texts as the sanitizer leaves them
\* (non-empty, trimmed) and confidence in [0, 1].
ValidResult(o) ==
    /\ o.kind = "object"
    /\ o.symbol.t = "str"
    /\ Includes(VALID_SIGNALS, o.signal_level)
    /\ Includes(VALID_ACTIONS, o.action)
    /\ Includes(VALID_RISKS, o.risk_estimation)
    /\ \A k \in {"suggested_buy_price", "suggested_sell_price", "stop_loss_price"} :
          o[k].t \in {"num", "null"}
    /\ o.reasoning.t = "str" /\ o.reasoning.s # <<>> /\ Trim(o.reasoning.s) = o.reasoning.s
    /\ o.time_horizon.t = "str" /\ o.time_horizon.s # <<>>
    /\ Trim(o.time_horizon.s) = o.time_horizon.s
    /\ o.confidence.t = "num" /\ o.confidence.n >= 0 /\ o.confidence.n <= 2
    /\ o.technical_summary.t = "obj"
    /\ Includes(VALID_TRENDS, o.technical_summary.trend)
    /\ o.technical_summary.support_levels.t = "arr"
    /\ o.technical_summary.resistance_levels.t = "arr"
    /\ o.technical_summary.key_indicators.t = "str"

\* sanitizeAnalysis(raw, symbol, currentPrice), with currentPrice.toFixed(2)
\* already printed: the object returned, or threw when a TypeError leaves it.
sanitizeAnalysis(raw, symbol, priceText) ==
    IF raw.kind = "null" THEN [threw |-> TRUE, value |-> NoValue]
    ELSE
    LET o == IF raw.kind = "object" THEN raw ELSE EmptyObject
        reasoning == TrimOr(o.reasoning, SynthReasoning(o, symbol, priceText))
        horizon == TrimOr(o.time_horizon, <<"N/A">>)
    IN IF reasoning.threw \/ horizon.threw THEN [threw |-> TRUE, value |-> NoValue]
       ELSE [threw |-> FALSE,
             value |->
               [kind |-> "object",
                symbol |-> Coalesce(o.symbol, Str(symbol)),
                signal_level |-> EnumField(VALID_SIGNALS, o.signal_level, <<"weak">>),
                action |-> EnumField(VALID_ACTIONS, o.action, <<"watch">>),
                suggested_buy_price |-> Coalesce(o.suggested_buy_price, Null),
                suggested_sell_price |-> Coalesce(o.suggested_sell_price, Null),
                stop_loss_price |-> Coalesce(o.stop_loss_price, Null),
                risk_estimation |-> EnumField(VALID_RISKS, o.risk_estimation, <<"moderate">>),
                reasoning |-> reasoning.v,
                technical_summary |-> SanitizedSummary(o.technical_summary),
                confidence |-> Confidence(o.confidence),
                time_horizon |-> horizon.v]]

\* ------------------------------------------------------------ HTTP exchange

\* for (const version of ["v1beta", "v1"]), in both loops.
VERSIONS == <<"v1beta", "v1">>

\* What a provider's text holds, as far as parseJsonResponse and
\* sanitizeAnalysis tell texts apart: an object the sanitizer accepts, text no
\* repair makes parse, the JSON literal null, an object whose reasoning is not
\* a string. The empty text "" is told apart by the callers.
TextKinds == {"object", "unparseable", "json_null", "json_scalar", "object_bad_reasoning"}

\* parseJsonResponse on a text of each kind: the value JSON.parse gave, at
\* once or after the repair, or not ok when both parses throw and the
\* malformed-response error (with the first 500 characters of the text) is
\* thrown. json_scalar is a number, a string or an array without braces.
parseJsonResponse(text) ==
    CASE text = "object" ->
            [ok |-> TRUE, value |-> [EmptyObject EXCEPT !.signal_level = Str(<<"strong">>)]]
      [] text = "object_bad_reasoning" ->
            [ok |-> TRUE, value |-> [EmptyObject EXCEPT !.reasoning = Num(3)]]
      [] text = "json_null" -> [ok |-> TRUE, value |-> [kind |-> "null"]]
      [] text = "json_scalar" -> [ok |-> TRUE, value |-> [kind |-> "other"]]
      [] OTHER -> [ok |-> FALSE, value |-> NoValue]

\* parseJsonResponse, sanitizeAnalysis, enrichWithIndicators on a non-empty
\* text: the result, or the error that leaves the provider function.
TextOutcome(text) ==
    LET raw == parseJsonResponse(text)
    IN IF ~raw.ok THEN "malformed_response"
       ELSE IF sanitizeAnalysis(raw.value, SYMBOL, PRICE_TEXT).threw THEN "type_error"
       ELSE "result"

\* A response: status 0 stands for a fetch that rejects (no HTTP response);
\* text is the generated text of a 200; body is the body of a failure.
Resp(status, text, body) == [status |-> status, text |-> text, body |-> body]

Pending == Resp(-1, "", "")

NoCall == [api |-> "none", model |-> "", version |-> "", resp |-> Pending]

Call(api, model, version) == [api |-> api, model |-> model, version |-> version, resp |-> Pending]

GenResponses ==
    {Resp(200, t, "") : t \in TextKinds \cup {""}}
    \cup {Resp(429, "", b) : b \in {"limit: 0", "rate"}}
    \cup {Resp(404, "", ""), Resp(400, "", ""), Resp(500, "", ""), Resp(0, "", "")}

GroqResponses ==
    {Resp(200, t, "") : t \in TextKinds \cup {""}}
    \cup {Resp(429, "", "rate"), Resp(500, "", "down"), Resp(503, "", ""), Resp(0, "", "")}

ModelLists == SeqsOver(Catalog, MaxModels)

ListResponses ==
    {[status |-> 200, models |-> l] : l \in ModelLists}
    \cup {[status |-> st, models |-> <<>>] : st \in {400, 403, 500, 0}}

\* The log with the response of the call in flight filled in.
Answered(log, r) == [log EXCEPT ![Len(log)].resp = r]

InFlight(log) == {i \in DOMAIN log : log[i].resp = Pending}

\* ------------------------------------------------------------ listAvailableModels

\* The loop with 400 and 403 treated as any other failure status.
ListDecision_RejectedTriesNext(status) ==
    CASE status = 0 -> "throw"
      [] status = 200 -> "return"
      [] OTHER -> "next"

\* What the body of the loop does with the status of one listing response:
\* return (res.ok), reject (400 or 403: the key-rejected throw), next (go on
\* to the following revision), throw (the fetch itself rejected).
ListDecision(status) ==
    CASE status = 0 -> "throw"
      [] status = 200 -> "return"
      [] status \in {400, 403} -> "reject"
      [] OTHER -> "next"

\* ------------------------------------------------------------ analyzeWithGemini

\* The inner loop with a 429 treated as any other failure status.
GenDecision_429NextModel(r) ==
    CASE r.status = 0 -> [go |-> "throw", rec |-> "", out |-> "network_error"]
      [] r.status = 200 /\ r.text = "" -> [go |-> "next_model", rec |-> "empty response", out |-> "none"]
      [] r.status = 200 -> [go |-> "return", rec |-> "", out |-> TextOutcome(r.text)]
      [] r.status = 404 -> [go |-> "next_version", rec |-> "", out |-> "none"]
      [] OTHER -> [go |-> "next_model", rec |-> "HTTP", out |-> "none"]

\* The inner loop with break in place of continue after a 404.
GenDecision_404NextModel(r) ==
    CASE r.status = 0 -> [go |-> "throw", rec |-> "", out |-> "network_error"]
      [] r.status = 200 /\ r.text = "" -> [go |-> "next_model", rec |-> "empty response", out |-> "none"]
      [] r.status = 200 -> [go |-> "return", rec |-> "", out |-> TextOutcome(r.text)]
      [] r.status = 429 /\ r.body = "limit: 0" -> [go |-> "throw", rec |-> "", out |-> "quota_zero"]
      [] r.status = 429 -> [go |-> "throw", rec |-> "", out |-> "rate_limit"]
      [] r.status = 404 -> [go |-> "next_model", rec |-> "", out |-> "none"]
      [] OTHER -> [go |-> "next_model", rec |-> "HTTP", out |-> "none"]

\* The inner loop with continue in place of break after a failure status
\* other than 404 and 429.
GenDecision_ErrorNextVersion(r) ==
    CASE r.status = 0 -> [go |-> "throw", rec |-> "", out |-> "network_error"]
      [] r.status = 200 /\ r.text = "" -> [go |-> "next_model", rec |-> "empty response", out |-> "none"]
      [] r.status = 200 -> [go |-> "return", rec |-> "", out |-> TextOutcome(r.text)]
      [] r.status = 429 /\ r.body = "limit: 0" -> [go |-> "throw", rec |-> "", out |-> "quota_zero"]
      [] r.status = 429 -> [go |-> "throw", rec |-> "", out |-> "rate_limit"]
      [] r.status = 404 -> [go |-> "next_version", rec |-> "", out |-> "none"]
      [] OTHER -> [go |-> "next_version", rec |-> "HTTP", out |-> "none"]

\* The success branch going on to the next model when the text does not
\* parse, in place of letting the parser's error out.
GenDecision_UnparsedNextModel(r) ==
    CASE r.status = 0 -> [go |-> "throw", rec |-> "", out |-> "network_error"]
      [] r.status = 200 /\ r.text = "" -> [go |-> "next_model", rec |-> "empty response", out |-> "none"]
      [] r.status = 200 /\ TextOutcome(r.text) = "malformed_response" ->
            [go |-> "next_model", rec |-> "unparsed", out |-> "none"]
      [] r.status = 200 -> [go |-> "return", rec |-> "", out |-> TextOutcome(r.text)]
      [] r.status = 429 /\ r.body = "limit: 0" -> [go |-> "throw", rec |-> "", out |-> "quota_zero"]
      [] r.status = 429 -> [go |-> "throw", rec |-> "", out |-> "rate_limit"]
      [] r.status = 404 -> [go |-> "next_version", rec |-> "", out |-> "none"]
      [] OTHER -> [go |-> "next_model", rec |-> "HTTP", out |-> "none"]

\* What the body of the inner loop does with the response of one
\* generateContent call: go is return, throw, next_version (continue) or
\* next_model (break); rec is the reason pushed on errors ("" for none); out is
\* the outcome of the analysis when it ends here.
GenDecision(r) ==
    CASE r.status = 0 -> [go |-> "throw", rec |-> "", out |-> "network_error"]
      [] r.status = 200 /\ r.text = "" -> [go |-> "next_model", rec |-> "empty response", out |-> "none"]
      [] r.status = 200 -> [go |-> "return", rec |-> "", out |-> TextOutcome(r.text)]
      [] r.status = 429 /\ r.body = "limit: 0" -> [go |-> "throw", rec |-> "", out |-> "quota_zero"]
      [] r.status = 429 -> [go |-> "throw", rec |-> "", out |-> "rate_limit"]
      [] r.status = 404 -> [go |-> "next_version", rec |-> "", out |-> "none"]
      [] OTHER -> [go |-> "next_model", rec |-> "HTTP", out |-> "none"]

\* The loops with the model index left alone when a model's revisions run
\* out after a 404: the same model is tried again.
Advance_RetryModel(go, m, v) ==
    IF go = "next_version"
    THEN [mi |-> m, vi |-> IF v < Len(VERSIONS) THEN v + 1 ELSE 1]
    ELSE [mi |-> m + 1, vi |-> 1]

\* The loop position after continue (next_version) or break (next_model) at
\* model m, revision v.
Advance(go, m, v) ==
    IF go = "next_version" /\ v < Len(VERSIONS)
    THEN [mi |-> m, vi |-> v + 1]
    ELSE [mi |-> m + 1, vi |-> 1]

\* The error message listing the ranked candidates in place of the discovered
\* models.
allNames_Candidates(avail) == rankModels(avail)

\* allNames: available.map(m => m.name.replace("models/", "")), the ids the
\* no-usable-model message lists.
allNames(avail) == [i \in DOMAIN avail |-> avail[i].name]

\* errors after the response r of the call at model m, revision v.
Recorded(errs, d, r, m, v) ==
    IF d.rec = "" THEN errs
    ELSE Append(errs, [model |-> candidates[m], version |-> VERSIONS[v],
                       reason |-> d.rec, status |-> r.status])

\* -------------------------------------------------------- analyzeWithGroq

\* What the message of a thrown error quotes of the response: nothing.
NoDetail == [status |-> -1, body |-> ""]

\* The status check without the 429 branch.
GroqDecision_429AsApiError(r) ==
    CASE r.status = 0 -> [out |-> "network_error", carries |-> NoDetail]
      [] r.status # 200 -> [out |-> "groq_api_error", carries |-> [status |-> r.status, body |-> r.body]]
      [] r.text = "" -> [out |-> "groq_no_response", carries |-> NoDetail]
      [] OTHER -> [out |-> "text", carries |-> NoDetail]

\* What analyzeWithGroq does with the settled fetch: the rejection (status 0)
\* propagates, a 429 throws the rate-limit error, another non-ok status throws
\* the API error quoting status and body, empty content throws, and content
\* goes on to the parser.
GroqDecision(r) ==
    CASE r.status = 0 -> [out |-> "network_error", carries |-> NoDetail]
      [] r.status = 429 -> [out |-> "groq_rate_limit", carries |-> NoDetail]
      [] r.status # 200 -> [out |-> "groq_api_error", carries |-> [status |-> r.status, body |-> r.body]]
      [] r.text = "" -> [out |-> "groq_no_response", carries |-> NoDetail]
      [] OTHER -> [out |-> "text", carries |-> NoDetail]

\* ------------------------------------------------------------ analyzeStock

\* ------------------------------------- parseJsonResponse, character by character

\* A text is a sequence of pieces. A piece is one character ({ } " \ , : and
\* " " for a whitespace character) or a run of characters none of which the
\* parser looks for: a word, a number literal, the literal null, the word json
\* and the fence of three backticks.
QT == "\""

\* The backslash character.
BS == "<backslash>"

\* The three backticks of a code fence.
FENCE == "<fence>"

NumberPieces == {"150"}

\* The piece at index i, or a piece no text holds past the end.
At(t, i) == IF i \in DOMAIN t THEN t[i] ELSE "<end>"

Least(S) == CHOOSE x \in S : \A y \in S : x <= y

Greatest(S) == CHOOSE x \in S : \A y \in S : x >= y

\* (t.match(/c/g) || []).length
Count(t, c) == Cardinality({i \in DOMAIN t : t[i] = c})

\* The first index from i on that holds no whitespace (Len(t) + 1: none).
SkipWs(t, i) == Least({j \in i..(Len(t) + 1) : At(t, j) \notin WS})

\* The last index that holds no whitespace (0: none).
LastInk(t) == Greatest({0} \cup {j \in DOMAIN t : t[j] \notin WS})

RECURSIVE StripFences(_, _)
\* .replace(/```json\s*/gi, "") with json TRUE, .replace(/```\s*/g, "") with
\* json FALSE: every fence goes, with the whitespace after it.
StripFences(t, json) ==
    IF t = <<>> THEN <<>>
    ELSE IF Head(t) = FENCE /\ (json => At(t, 2) = "json")
    THEN StripFences(SubSeq(t, SkipWs(t, IF json THEN 3 ELSE 2), Len(t)), json)
    ELSE <<Head(t)>> \o StripFences(Tail(t), json)

\* cleaned.slice(jsonStart, jsonEnd + 1) when there is a { and the last } is
\* after the first {.
SliceObject(cleaned) ==
    LET starts == {i \in DOMAIN cleaned : cleaned[i] = "{"}
        ends == {i \in DOMAIN cleaned : cleaned[i] = "}"}
    IN IF starts # {} /\ ends # {} /\ Greatest(ends) > Least(starts)
       THEN SubSeq(cleaned, Least(starts), Greatest(ends))
       ELSE cleaned

RECURSIVE StringEnd(_, _)
\* JSON.parse inside a string, at index j: the index of the closing quote, or
\* 0 when the text ends first or a backslash is followed by a character that
\* makes no escape.
StringEnd(t, j) ==
    IF j > Len(t) THEN 0
    ELSE IF t[j] = QT THEN j
    ELSE IF t[j] = BS
    THEN IF At(t, j + 1) \in {QT, BS} THEN StringEnd(t, j + 2) ELSE 0
    ELSE StringEnd(t, j + 1)

NoParse == [ok |-> FALSE, object |-> FALSE, fields |-> <<>>]

\* No text received.
NoText == [raw |-> <<>>, complete |-> <<>>]

\* JSON.parse of a value at index i: a string, a number or null; next is the
\* index after it.
ParseValue(t, i) ==
    CASE At(t, i) = QT ->
            LET e == StringEnd(t, i + 1)
            IN [ok |-> e > 0, next |-> e + 1,
                val |-> IF e > 0 THEN Str(SubSeq(t, i + 1, e - 1)) ELSE Absent]
      [] At(t, i) = "null" -> [ok |-> TRUE, next |-> i + 1, val |-> Null]
      [] At(t, i) \in NumberPieces ->
            [ok |-> TRUE, next |-> i + 1, val |-> Val("num", <<t[i]>>, 0)]
      [] OTHER -> [ok |-> FALSE, next |-> i, val |-> Absent]

RECURSIVE ParseMembers(_, _, _)
\* JSON.parse of the members of an object from index i on, acc being the
\* members read so far: "key" : value, then a comma and the next member, or
\* the closing brace and nothing but whitespace after it.
ParseMembers(t, i, acc) ==
    LET k == SkipWs(t, i)
        ke == IF At(t, k) = QT THEN StringEnd(t, k + 1) ELSE 0
        c == SkipWs(t, ke + 1)
        v == ParseValue(t, SkipWs(t, c + 1))
        d == SkipWs(t, v.next)
        all == Append(acc, [key |-> SubSeq(t, k + 1, ke - 1), val |-> v.val])
    IN IF ke = 0 \/ At(t, c) # ":" \/ ~v.ok THEN NoParse
       ELSE IF At(t, d) = "," THEN ParseMembers(t, d + 1, all)
       ELSE IF At(t, d) = "}" /\ SkipWs(t, d + 1) > Len(t)
       THEN [ok |-> TRUE, object |-> TRUE, fields |-> all]
       ELSE NoParse

\* JSON.parse: ok is FALSE for the SyntaxError; a flat object is returned
\* with its members in order, another value with object FALSE.
JSONparse(t) ==
    LET i == SkipWs(t, 1)
    IN IF At(t, i) = "{"
       THEN IF At(t, SkipWs(t, i + 1)) = "}"
            THEN IF SkipWs(t, SkipWs(t, i + 1) + 1) > Len(t)
                 THEN [ok |-> TRUE, object |-> TRUE, fields |-> <<>>]
                 ELSE NoParse
            ELSE ParseMembers(t, i + 1, <<>>)
       ELSE LET v == ParseValue(t, i)
            IN IF v.ok /\ SkipWs(t, v.next) > Len(t)
               THEN [ok |-> TRUE, object |-> FALSE, fields |-> <<>>]
               ELSE NoParse

\* repaired.replace(/,\s*$/, ""): a comma with only whitespace after it goes,
\* with that whitespace.
DropTrailingComma(t) ==
    LET e == LastInk(t)
    IN IF e > 0 /\ t[e] = "," THEN SubSeq(t, 1, e - 1) ELSE t

\* repaired.replace(/,\s*"[^"]*$/, ""): when the last quote of the text has,
\* whitespace apart, a comma before it, the text is cut before that comma.
DropPartialKey(t) ==
    LET q == Greatest({0} \cup {i \in DOMAIN t : t[i] = QT})
        c == LastInk(SubSeq(t, 1, q - 1))
    IN IF q > 0 /\ c > 0 /\ t[c] = "," THEN SubSeq(t, 1, c - 1) ELSE t

\* repaired.replace(/:\s*$/, ': null')
NullAfterColon(t) ==
    LET e == LastInk(t)
    IN IF e > 0 /\ t[e] = ":" THEN SubSeq(t, 1, e - 1) \o <<":", " ", "null">> ELSE t

\* (repaired.match(/(?<!\\)"/g) || []).length: the quotes that no backslash
\* comes right before.
QuoteCount(t) == Cardinality({i \in DOMAIN t : t[i] = QT /\ At(t, i - 1) # BS})

\* n closing braces.
Braces(n) == [i \in 1..n |-> "}"]

\* The catch block up to the second JSON.parse: the text it hands to it.
Repair(cleaned) ==
    LET opens == Count(cleaned, "{")
        closes == Count(cleaned, "}")
        repaired == NullAfterColon(DropPartialKey(DropTrailingComma(cleaned)))
        quoted == IF QuoteCount(repaired) % 2 # 0 THEN Append(repaired, QT) ELSE repaired
    IN quoted \o Braces(IF opens > closes THEN opens - closes ELSE 0)

\* parseJsonResponse on the characters of the text: attempts is the number of
\* JSON.parse calls made; ok is FALSE when the error with the raw response is
\* thrown.
parseJsonText(text) ==
    LET cleaned == SliceObject(Trim(StripFences(StripFences(text, TRUE), FALSE)))
        first == JSONparse(cleaned)
        second == JSONparse(Repair(cleaned))
    IN IF first.ok
       THEN [ok |-> TRUE, object |-> first.object, fields |-> first.fields, attempts |-> 1]
       ELSE [ok |-> second.ok, object |-> second.object, fields |-> second.fields,
             attempts |-> 2]

\* The text "N/A" in the place of an indicator.
NA == [na |-> TRUE, n |-> 0]

\* x.toFixed(2) of a value in hundredths, x.toFixed(4) likewise: the digits of
\* the value.
Fixed(v) == [na |-> FALSE, n |-> v]

\* No prompt built yet.
NoPrompt == [k \in {"sma_20", "sma_50", "sma_200", "rsi", "bb_upper", "bb_middle",
                    "bb_lower", "macd", "signal"} |-> NA]

\* The analyze route while a part of the pipeline is followed alone.
RouteOff ==
    /\ now = 0
    /\ cache = <<>>
    /\ suggestions = <<>>
    /\ req = <<>>

\* The sanitizer harness while analyzeStock itself is followed.
SanOff ==
    /\ reply = NoText
    /\ parsed = NoParse
    /\ arg = NoValue
    /\ sres = NoResult
    /\ sres2 = NoResult
    /\ history = <<>>
    /\ prompt = NoPrompt
    /\ final = NoValue
    /\ spc = "off"

\* analyzeStock while another part of the program is followed.
ChainOff ==
    /\ provider = "groq"
    /\ keyOk = TRUE
    /\ pc = "idle"
    /\ available = <<>>
    /\ candidates = <<>>
    /\ mi = 0
    /\ vi = 0
    /\ lv = 0
    /\ calls = <<>>
    /\ errors = <<>>
    /\ chosen = NoCall
    /\ outcome = "none"
    /\ named = <<>>
    /\ thrown = NoDetail

Init ==
    /\ provider \in {"gemini", "groq"}
    /\ keyOk \in BOOLEAN
    /\ pc = "start"
    /\ available = <<>>
    /\ candidates = <<>>
    /\ mi = 0
    /\ vi = 0
    /\ lv = 0
    /\ calls = <<>>
    /\ errors = <<>>
    /\ chosen = NoCall
    /\ outcome = "none"
    /\ named = <<>>
    /\ thrown = NoDetail
    /\ SanOff
    /\ RouteOff

\* analyzeStock up to the first await: getProvider, the key getter, buildPrompt
\* and the first fetch.
Begin ==
    /\ pc = "start"
    /\ IF ~keyOk
       THEN /\ pc' = "failed"
            /\ outcome' = "configuration_error"
            /\ UNCHANGED <<calls, lv>>
       ELSE IF provider = "gemini"
       THEN /\ pc' = "list_wait"
            /\ lv' = 1
            /\ calls' = <<Call("list", "", VERSIONS[1])>>
            /\ outcome' = "none"
       ELSE /\ pc' = "groq_wait"
            /\ calls' = <<Call("groq", "llama-3.3-70b-versatile", "")>>
            /\ outcome' = "none"
            /\ UNCHANGED lv
    /\ UNCHANGED <<provider, keyOk, available, candidates, mi, vi, errors, chosen, named, thrown>>
    /\ UNCHANGED <<sanVars, routeVars>>

\* listAvailableModels resumes with the response r, and analyzeWithGemini
\* runs on to its first generateContent fetch.
OnListResponse(r) ==
    /\ LET log == Answered(calls, [status |-> r.status, text |-> "", body |-> ""])
           d == ListDecision(r.status)
       IN CASE d = "throw" ->
                 /\ pc' = "failed" /\ outcome' = "network_error" /\ calls' = log
                 /\ UNCHANGED <<available, candidates, mi, vi, lv, named>>
            [] d = "return" ->
                 /\ available' = r.models
                 /\ candidates' = rankModels(r.models)
                 /\ IF Len(candidates') = 0
                    THEN /\ pc' = "failed" /\ outcome' = "no_usable_model" /\ calls' = log
                         /\ named' = allNames(r.models)
                         /\ UNCHANGED <<mi, vi>>
                    ELSE /\ pc' = "gen_wait" /\ outcome' = "none"
                         /\ mi' = 1 /\ vi' = 1
                         /\ calls' = Append(log, Call("gen", candidates'[1], VERSIONS[1]))
                         /\ UNCHANGED named
                 /\ UNCHANGED lv
            [] d = "reject" ->
                 /\ pc' = "failed" /\ outcome' = "key_rejected" /\ calls' = log
                 /\ UNCHANGED <<available, candidates, mi, vi, lv, named>>
            [] OTHER ->
                 /\ IF lv < Len(VERSIONS)
                    THEN /\ lv' = lv + 1
                         /\ pc' = "list_wait" /\ outcome' = "none"
                         /\ calls' = Append(log, Call("list", "", VERSIONS[lv + 1]))
                    ELSE /\ pc' = "failed" /\ outcome' = "list_unreachable" /\ calls' = log
                         /\ UNCHANGED lv
                 /\ UNCHANGED <<available, candidates, mi, vi, named>>
    /\ UNCHANGED <<provider, keyOk, errors, chosen, thrown>>
    /\ UNCHANGED <<sanVars, routeVars>>

\* analyzeWithGemini resumes with the response r of the generateContent call
\* in flight and runs to its next fetch, its return or its throw.
OnGenResponse(r) ==
    /\ LET log == Answered(calls, r)
           d == GenDecision(r)
           nxt == Advance(d.go, mi, vi)
       IN /\ errors' = Recorded(errors, d, r, mi, vi)
          /\ CASE d.go = "return" ->
                    /\ chosen' = Last(log)
                    /\ outcome' = d.out
                    /\ pc' = IF d.out = "result" THEN "done" ELSE "failed"
                    /\ calls' = log
                    /\ UNCHANGED <<mi, vi>>
               [] d.go = "throw" ->
                    /\ outcome' = d.out
                    /\ pc' = "failed"
                    /\ calls' = log
                    /\ UNCHANGED <<mi, vi, chosen>>
               [] OTHER ->
                    /\ mi' = nxt.mi
                    /\ vi' = nxt.vi
                    /\ IF nxt.mi <= Len(candidates)
                       THEN /\ pc' = "gen_wait" /\ outcome' = "none"
                            /\ calls' = Append(log, Call("gen", candidates[nxt.mi], VERSIONS[nxt.vi]))
                       ELSE /\ pc' = "failed" /\ outcome' = "all_models_failed"
                            /\ calls' = log
                    /\ UNCHANGED chosen
    /\ UNCHANGED <<provider, keyOk, available, candidates, lv, named, thrown>>
    /\ UNCHANGED <<sanVars, routeVars>>

\* analyzeWithGroq resumes with the response r of its one fetch.
OnGroqResponse(r) ==
    /\ calls' = Answered(calls, r)
    /\ LET d == GroqDecision(r)
       IN /\ thrown' = d.carries
          /\ IF d.out = "text"
             THEN outcome' = TextOutcome(r.text) /\ chosen' = Last(calls')
             ELSE outcome' = d.out /\ UNCHANGED chosen
    /\ pc' = IF outcome' = "result" THEN "done" ELSE "failed"
    /\ UNCHANGED <<provider, keyOk, available, candidates, mi, vi, lv, errors, named>>
    /\ UNCHANGED <<sanVars, routeVars>>

\* The listing fetch in flight settles.
RecvList == pc = "list_wait" /\ \E r \in ListResponses : OnListResponse(r)

\* The generateContent fetch in flight settles.
RecvGen == pc = "gen_wait" /\ \E r \in GenResponses : OnGenResponse(r)

\* The Groq fetch in flight settles.
RecvGroq == pc = "groq_wait" /\ \E r \in GroqResponses : OnGroqResponse(r)

Next ==
    \/ Begin
    \/ RecvList
    \/ RecvGen
    \/ RecvGroq

Spec == Init /\ [][Next]_vars

\* Every fetch is answered or rejects: the runtime bounds each HTTP attempt.
FairSpec == Spec /\ WF_vars(Next)

Terminated == pc \in {"done", "failed"}

\* ------------------------------------------------------------ fallback chain: claims

GenIdx == {i \in DOMAIN calls : calls[i].api = "gen"}

ListIdx == {i \in DOMAIN calls : calls[i].api = "list"}

\* Rank of a model id in the candidate list (0 when it is not in it).
RankOf(name) ==
    IF \E k \in DOMAIN candidates : candidates[k] = name
    THEN CHOOSE k \in DOMAIN candidates : candidates[k] = name
    ELSE 0

\* Revision A is v1beta, revision B is v1.
RevisionOrder(v) == IF v = "v1beta" THEN 1 ELSE 2

\* C1: once a generateContent call, on any model and either revision, is
\* answered 429, the analysis has ended with a rate-limit or quota error and
\* that call is the last call of the log: no call follows it in any state.
C1_AbortOn429 ==
    \A i \in GenIdx :
        calls[i].resp.status = 429 =>
            /\ i = Len(calls)
            /\ pc = "failed"
            /\ outcome \in {"rate_limit", "quota_zero"}

\* A 429 on revision v1 of the second-ranked model, after the first model
\* was given up on.
C1_Witness ==
    /\ Len(candidates) >= 2
    /\ Len(calls) >= 1
    /\ Last(calls).api = "gen"
    /\ Last(calls).model = candidates[2]
    /\ Last(calls).version = "v1"
    /\ Last(calls).resp.status = 429
    /\ pc = "failed"

\* C2: a 404 on revision A is followed at once by a call to revision B of the
\* same model; when that call answers 200 with non-empty text the chain ends
\* there with that text taken (the result is returned when the text parses and
\* sanitizes) and no later call exists; a model is left after a 404 only when
\* the 404 came from revision B, after revision A of the same model.
C2_RevisionAfter404 ==
    \A i \in GenIdx :
        calls[i].resp.status = 404 =>
            /\ calls[i].version = "v1beta" =>
                 /\ i + 1 \in GenIdx
                 /\ calls[i + 1].model = calls[i].model
                 /\ calls[i + 1].version = "v1"
                 /\ (calls[i + 1].resp.status = 200 /\ calls[i + 1].resp.text # "") =>
                        /\ i + 1 = Len(calls)
                        /\ Terminated
                        /\ chosen = calls[i + 1]
                        /\ calls[i + 1].resp.text = "object" => (pc = "done" /\ outcome = "result")
            /\ ((i + 1 \in GenIdx /\ calls[i + 1].model # calls[i].model)
                  \/ (i = Len(calls) /\ outcome = "all_models_failed")) =>
                 /\ calls[i].version = "v1"
                 /\ i - 1 \in GenIdx
                 /\ calls[i - 1].model = calls[i].model
                 /\ calls[i - 1].version = "v1beta"
                 /\ calls[i - 1].resp.status = 404

\* The first model answered 404 on v1beta and 200 with a usable text on v1,
\* with a second model waiting in the list.
C2_Witness ==
    /\ Len(candidates) >= 2
    /\ Cardinality(GenIdx) = 2
    /\ \E i \in GenIdx :
          /\ i + 1 \in GenIdx
          /\ calls[i].model = candidates[1] /\ calls[i].version = "v1beta"
          /\ calls[i].resp.status = 404
          /\ calls[i + 1].model = candidates[1] /\ calls[i + 1].version = "v1"
          /\ calls[i + 1].resp = Resp(200, "object", "")
    /\ pc = "done"

\* C3: at most one call is in flight; no (model, revision) pair is called
\* twice; of two generateContent calls the earlier one is to a model ranked
\* no later, and within one model v1beta comes before v1.
C3_SequentialOrdered ==
    /\ Cardinality(InFlight(calls)) <= 1
    /\ \A i, j \in GenIdx :
          i < j =>
             /\ <<calls[i].model, calls[i].version>> # <<calls[j].model, calls[j].version>>
             /\ RankOf(calls[i].model) >= 1
             /\ RankOf(calls[i].model) <= RankOf(calls[j].model)
             /\ calls[i].model = calls[j].model =>
                   RevisionOrder(calls[i].version) < RevisionOrder(calls[j].version)

\* Both revisions of two models were called and a call to a third is in flight.
C3_Witness ==
    /\ Cardinality(GenIdx) >= 5
    /\ Cardinality(InFlight(calls)) = 1
    /\ Cardinality({calls[i].model : i \in GenIdx}) = 3

\* C4: when the chain ends with the aggregate error, errors holds exactly
\* one entry per generateContent call made, for the same model and revision,
\* 404 answers included.
C4_EveryCallRecorded ==
    outcome = "all_models_failed" =>
        /\ Len(errors) = Cardinality(GenIdx)
        /\ \A i \in GenIdx :
              \E k \in DOMAIN errors :
                  errors[k].model = calls[i].model /\ errors[k].version = calls[i].version

\* The bounds of C5: an ended invocation has a result or an error; there are at most two
\* listing calls and at most 2 * n generateContent calls for n candidates, the
\* Groq path has made one call as soon as it is past its key check and never
\* a second one, and no call is issued twice.
C5_Bounded ==
    /\ Cardinality(ListIdx) <= 2
    /\ Cardinality(GenIdx) <= 2 * Len(candidates)
    /\ \A i, j \in DOMAIN calls :
          i # j => <<calls[i].api, calls[i].model, calls[i].version>>
                      # <<calls[j].api, calls[j].model, calls[j].version>>
    /\ provider = "groq" =>
          /\ Len(calls) <= 1
          /\ (keyOk /\ pc # "start") => Len(calls) = 1
          /\ \A i \in DOMAIN calls : calls[i].api = "groq"
    /\ provider = "gemini" => \A i \in DOMAIN calls : calls[i].api \in {"list", "gen"}
    /\ Terminated <=> outcome # "none"

\* C5: the bounds of C5_Bounded hold in every state of every run, and every
\* run, each of its fetches settling, reaches done or failed.
C5_TerminatesBounded == []C5_Bounded /\ <>Terminated

\* The longest Gemini run: two listing calls and both revisions of each of
\* three candidates, then the aggregate error.
C5_Witness ==
    /\ pc = "failed"
    /\ Len(candidates) = 3
    /\ Cardinality(ListIdx) = 2
    /\ Cardinality(GenIdx) = 2 * Len(candidates)

\* C6: a generateContent fetch that rejects (no HTTP response) is recorded in
\* errors and the chain goes on with the next ranked model, as after a 500.
C6_NetworkErrorContinues ==
    \A i \in GenIdx :
        calls[i].resp.status = 0 =>
            /\ \E k \in DOMAIN errors :
                  errors[k].model = calls[i].model /\ errors[k].version = calls[i].version
            /\ outcome # "network_error"
            /\ RankOf(calls[i].model) < Len(candidates) =>
                  /\ i + 1 \in GenIdx
                  /\ calls[i + 1].model = candidates[RankOf(calls[i].model) + 1]
                  /\ calls[i + 1].version = "v1beta"

\* ------------------------------------------------------------ listing: claims

GivesUpModel(r) ==
    \/ (r.status = 200 /\ r.text = "")
    \/ r.status \notin {-1, 0, 200, 404, 429}

\* C25: after a success response with empty text, or a failure response other
\* than 404 and 429, on v1beta of a model, v1 of that model is never called;
\* errors holds one entry for the call, and the call after it, if there is
\* one, is to v1beta of the next ranked model.
C25_NoRevisionBAfterFailure ==
    \A i \in GenIdx :
        (calls[i].version = "v1beta" /\ GivesUpModel(calls[i].resp)) =>
            /\ \A j \in GenIdx :
                  ~(calls[j].model = calls[i].model /\ calls[j].version = "v1")
            /\ Cardinality({k \in DOMAIN errors :
                               /\ errors[k].model = calls[i].model
                               /\ errors[k].version = calls[i].version}) = 1
            /\ i < Len(calls) =>
                  /\ calls[i + 1].api = "gen"
                  /\ RankOf(calls[i].model) < Len(candidates)
                  /\ calls[i + 1].model = candidates[RankOf(calls[i].model) + 1]
                  /\ calls[i + 1].version = "v1beta"
            /\ i = Len(calls) =>
                  /\ RankOf(calls[i].model) = Len(candidates)
                  /\ outcome = "all_models_failed"

\* v1beta of the first model answered 500, v1beta of the second answered
\* without text, and v1beta of the third is being called.
C25_Witness ==
    /\ Len(candidates) = 3
    /\ Cardinality(GenIdx) = 3
    /\ Len(errors) = 2
    /\ \E i \in GenIdx :
          /\ i + 2 = Len(calls)
          /\ calls[i].model = candidates[1] /\ calls[i].version = "v1beta"
          /\ calls[i].resp.status = 500
          /\ calls[i + 1].model = candidates[2] /\ calls[i + 1].version = "v1beta"
          /\ calls[i + 1].resp = Resp(200, "", "")
          /\ calls[i + 2].model = candidates[3] /\ calls[i + 2].version = "v1beta"
    /\ pc = "gen_wait"

\* C29: the first success response with text ends the search: when its text
\* does not parse even after repair the analysis has failed with the
\* malformed-response error and that call is the last one of the log.
C29_MalformedEndsSearch ==
    \A i \in GenIdx :
        (calls[i].resp.status = 200 /\ calls[i].resp.text # "") =>
            /\ i = Len(calls)
            /\ Terminated
            /\ chosen = calls[i]
            /\ \A j \in GenIdx : j < i => ~(calls[j].resp.status = 200 /\ calls[j].resp.text # "")
            /\ ~parseJsonResponse(calls[i].resp.text).ok =>
                  (pc = "failed" /\ outcome = "malformed_response")

\* The first model answered with a text that cannot be parsed while two more
\* models were still untried.
C29_Witness ==
    /\ Len(candidates) = 3
    /\ Cardinality(GenIdx) = 1
    /\ \E i \in GenIdx :
          /\ calls[i].model = candidates[1]
          /\ calls[i].resp = Resp(200, "unparseable", "")
          /\ i = Len(calls)
    /\ pc = "failed"
    /\ outcome = "malformed_response"

\* ------------------------------------------------------- single-model claims

GroqIdx == {i \in DOMAIN calls : calls[i].api = "groq"}

\* C21: with the Groq provider and its key configured, an analysis issues one
\* HTTP call, to Groq, and never another: a 429 answer ends it with the
\* rate-limit error, any other non-success answer ends it with the API error
\* whose message carries the status and the body of that answer.
C21_GroqSingleCall ==
    (provider = "groq" /\ keyOk /\ pc # "start") =>
        /\ Len(calls) = 1
        /\ GroqIdx = {1}
        /\ LET r == calls[1].resp
           IN /\ r.status = 429 =>
                    (pc = "failed" /\ outcome = "groq_rate_limit")
              /\ (r # Pending /\ r.status \notin {0, 200, 429}) =>
                    /\ pc = "failed"
                    /\ outcome = "groq_api_error"
                    /\ thrown = [status |-> r.status, body |-> r.body]

\* The Groq call was answered 429 and the analysis has ended.
C21_Witness ==
    /\ provider = "groq"
    /\ Len(calls) = 1
    /\ calls[1].api = "groq"
    /\ calls[1].resp.status = 429
    /\ outcome = "groq_rate_limit"
    /\ Terminated

\* ------------------------------------------------------------ ranking harness

\* Descriptors for rankModels alone: the directory above, an id excluded by
\* its name, two ids of equal score, an experimental id and an id tagged both
\* preview and experimental.
RankCatalog ==
    Catalog \cup
    { [name |-> "imagen-3.0-generate-002", version |-> 0, marks |-> {"imagen"}, gen |-> TRUE],
      [name |-> "gemini-2.0-flash-001", version |-> 20, marks |-> {"flash"}, gen |-> TRUE],
      [name |-> "gemini-2.0-flash-exp", version |-> 20, marks |-> {"flash", "exp"}, gen |-> TRUE],
      [name |-> "gemini-2.5-flash-preview-exp", version |-> 25,
       marks |-> {"flash", "preview", "exp"}, gen |-> TRUE] }

RankInit ==
    /\ available \in SeqsOver(RankCatalog, MaxModels)
    /\ candidates = <<>>
    /\ pc = "rank"
    /\ provider = "gemini"
    /\ keyOk = TRUE
    /\ mi = 0
    /\ vi = 0
    /\ lv = 0
    /\ calls = <<>>
    /\ errors = <<>>
    /\ chosen = NoCall
    /\ outcome = "none"
    /\ named = <<>>
    /\ thrown = NoDetail
    /\ SanOff
    /\ RouteOff

\* const candidates = rankModels(available)
Rank ==
    /\ pc = "rank"
    /\ candidates' = rankModels(available)
    /\ pc' = "ranked"
    /\ UNCHANGED <<provider, keyOk, available, mi, vi, lv, calls, errors, chosen, outcome, named, thrown>>
    /\ UNCHANGED <<sanVars, routeVars>>

RankNext == Rank

RankSpec == RankInit /\ [][RankNext]_vars

\* ------------------------------------------------------------ ranking: claims

\* The descriptor of a discovered id.
Descriptor(name) == CHOOSE m \in RankCatalog : m.name = name

\* The position of an id in the discovered list.
Discovered(name) == CHOOSE i \in DOMAIN available : available[i].name = name

\* C19: rankModels returns every eligible id once and nothing else, in
\* non-increasing score order, ids of equal score in discovery order; the
\* list gemini-2.0-flash, gemini-2.5-pro-preview, gemini-1.5-flash-latest
\* comes out as gemini-1.5-flash-latest, gemini-2.5-pro-preview,
\* gemini-2.0-flash.
C19_RankedPermutation ==
    pc = "ranked" =>
        /\ \A i \in DOMAIN available :
              IsTextModel(available[i]) =>
                  Cardinality({j \in DOMAIN candidates : candidates[j] = available[i].name}) = 1
        /\ \A j \in DOMAIN candidates :
              \E i \in DOMAIN available :
                  available[i].name = candidates[j] /\ IsTextModel(available[i])
        /\ \A i, j \in DOMAIN candidates :
              i < j =>
                  /\ score(Descriptor(candidates[i])) >= score(Descriptor(candidates[j]))
                  /\ score(Descriptor(candidates[i])) = score(Descriptor(candidates[j]))
                        => Discovered(candidates[i]) < Discovered(candidates[j])
        /\ [i \in DOMAIN available |-> available[i].name]
              = <<"gemini-2.0-flash", "gemini-2.5-pro-preview", "gemini-1.5-flash-latest">>
              => candidates
                    = <<"gemini-1.5-flash-latest", "gemini-2.5-pro-preview", "gemini-2.0-flash">>

\* Two ids of equal score discovered after a lower one: the higher score
\* first, the equal ones in discovery order.
C19_Witness ==
    /\ pc = "ranked"
    /\ [i \in DOMAIN available |-> available[i].name]
          = <<"gemini-2.0-flash-exp", "gemini-2.0-flash-001", "gemini-2.0-flash">>
    /\ candidates = <<"gemini-2.0-flash-001", "gemini-2.0-flash", "gemini-2.0-flash-exp">>

\* C20: the stability part of a discovered id's score is 50 without the
\* preview and the experimental tag, 20 with the preview tag only, and 0 with
\* the experimental tag, with or without the preview tag.
C20_StabilityScore ==
    pc = "ranked" =>
        \A i \in DOMAIN available :
            stability(available[i]) =
                IF "exp" \in available[i].marks THEN 0
                ELSE IF "preview" \in available[i].marks THEN 20
                ELSE 50

\* ------------------------------------------------------------ sanitizer harness

\* Strings for the text fields: empty, blank, plain, and with whitespace
\* before, after, around and inside.
TextStrings ==
    {<<>>, <<" ">>, <<" ", " ">>, <<"x">>, <<" ", "x">>, <<"x", " ">>, <<" ", "x", " ">>,
     <<"x", " ", "x">>, <<" ", " ", "x">>}

EnumInputs(valid) ==
    {Null, Num(1), Arr(1), Str(<<"rocket">>), Str(<<>>)}
    \cup {Str(v) : v \in valid} \cup {Str(<<" ">> \o v) : v \in {<<"weak">>}}

TextInputs == {Null, Num(3), Arr(1), Obj} \cup {Str(s) : s \in TextStrings}

NumberInputs == {Null, NaN, Str(<<"x">>)} \cup {Num(n) : n \in -1..3}

LevelInputs == {Null, Arr(2), Str(<<"x">>), Obj}

\* One key of a parsed object with a value for it; a key of technical_summary
\* is written technical_summary.key, and technical_summary alone gives it a
\* value that is no object.
FieldChoices ==
    {<<"signal_level", v>> : v \in EnumInputs(VALID_SIGNALS)}
    \cup {<<"action", v>> : v \in EnumInputs(VALID_ACTIONS)}
    \cup {<<"risk_estimation", v>> : v \in EnumInputs(VALID_RISKS)}
    \cup {<<"reasoning", v>> : v \in TextInputs}
    \cup {<<"time_horizon", v>> : v \in TextInputs}
    \cup {<<"confidence", v>> : v \in NumberInputs}
    \cup {<<"symbol", v>> : v \in {Null, Str(<<"MSFT">>)}}
    \cup {<<"suggested_buy_price", v>> : v \in {Null, Num(3)}}
    \cup {<<"suggested_sell_price", v>> : v \in {Num(3)}}
    \cup {<<"stop_loss_price", v>> : v \in {Num(3)}}
    \cup {<<"technical_summary", v>> : v \in {Null, Str(<<"x">>), Arr(1), Obj}}
    \cup {<<"technical_summary.trend", v>> : v \in EnumInputs(VALID_TRENDS)}
    \cup {<<"technical_summary.support_levels", v>> : v \in LevelInputs}
    \cup {<<"technical_summary.resistance_levels", v>> : v \in LevelInputs}
    \cup {<<"technical_summary.key_indicators", v>> : v \in {Null, Str(<<"x">>)}}

SummaryKeys == {"trend", "support_levels", "resistance_levels", "key_indicators"}

\* Whether object o has no value yet at the key of choice c.
Free(o, c) ==
    CASE c[1] = "technical_summary" -> o.technical_summary.t = "absent"
      [] c[1] = "technical_summary.trend" ->
            o.technical_summary.t \in {"absent", "obj"} /\ o.technical_summary.trend.t = "absent"
      [] c[1] = "technical_summary.support_levels" ->
            o.technical_summary.t \in {"absent", "obj"}
            /\ o.technical_summary.support_levels.t = "absent"
      [] c[1] = "technical_summary.resistance_levels" ->
            o.technical_summary.t \in {"absent", "obj"}
            /\ o.technical_summary.resistance_levels.t = "absent"
      [] c[1] = "technical_summary.key_indicators" ->
            o.technical_summary.t \in {"absent", "obj"}
            /\ o.technical_summary.key_indicators.t = "absent"
      [] OTHER -> o[c[1]].t = "absent"

\* Object o with the key of choice c set.
Put(o, c) ==
    CASE c[1] = "technical_summary" -> [o EXCEPT !.technical_summary.t = c[2].t]
      [] c[1] = "technical_summary.trend" ->
            [o EXCEPT !.technical_summary.t = "obj", !.technical_summary.trend = c[2]]
      [] c[1] = "technical_summary.support_levels" ->
            [o EXCEPT !.technical_summary.t = "obj", !.technical_summary.support_levels = c[2]]
      [] c[1] = "technical_summary.resistance_levels" ->
            [o EXCEPT !.technical_summary.t = "obj", !.technical_summary.resistance_levels = c[2]]
      [] c[1] = "technical_summary.key_indicators" ->
            [o EXCEPT !.technical_summary.t = "obj", !.technical_summary.key_indicators = c[2]]
      [] OTHER -> [o EXCEPT ![c[1]] = c[2]]

RECURSIVE ObjectsWith(_)
\* The parsed objects with at most n keys set.
ObjectsWith(n) ==
    IF n = 0 THEN {EmptyObject}
    ELSE LET fewer == ObjectsWith(n - 1)
         IN fewer \cup {Put(o, c) : <<o, c>> \in {oc \in fewer \X FieldChoices : Free(oc[1], oc[2])}}

\* Objects that already are results: every field present and in its domain.
CompleteResults ==
    {[kind |-> "object",
      symbol |-> Str(SYMBOL), signal_level |-> Str(<<"strong">>), action |-> Str(a),
      suggested_buy_price |-> b, suggested_sell_price |-> Num(3),
      stop_loss_price |-> Null, risk_estimation |-> Str(<<"low">>),
      reasoning |-> Str(<<"x", " ", "x">>),
      technical_summary |->
          [Summary("obj", Str(<<"bullish">>), Arr(2), Arr(0), Str(<<"x">>))
              EXCEPT !.ind.rsi = e],
      confidence |-> Num(c), time_horizon |-> Str(<<"x">>)] :
        a \in VALID_ACTIONS, b \in {Null, Num(3)}, c \in 0..2, e \in {Absent, Num(7)}}

ParsedValues ==
    ObjectsWith(MaxFields) \cup CompleteResults \cup {[kind |-> "null"], [kind |-> "other"]}

SanInit ==
    /\ reply = NoText
    /\ parsed = NoParse
    /\ arg \in ParsedValues
    /\ sres = NoResult
    /\ sres2 = NoResult
    /\ history = <<>>
    /\ prompt = NoPrompt
    /\ final = NoValue
    /\ spc = "call"
    /\ ChainOff
    /\ RouteOff

\* const analysis = sanitizeAnalysis(raw, request.symbol, request.quote.price)
Sanitize ==
    /\ spc = "call"
    /\ sres' = sanitizeAnalysis(arg, SYMBOL, PRICE_TEXT)
    /\ spc' = "done"
    /\ UNCHANGED <<reply, parsed, arg, sres2, history, prompt, final>>
    /\ UNCHANGED <<chainVars, routeVars>>

\* sanitizeAnalysis applied to the object it returned.
SanitizeAgain ==
    /\ spc = "done"
    /\ ~sres.threw
    /\ sres2' = sanitizeAnalysis(AsParsed(sres.value), SYMBOL, PRICE_TEXT)
    /\ spc' = "again"
    /\ UNCHANGED <<reply, parsed, arg, sres, history, prompt, final>>
    /\ UNCHANGED <<chainVars, routeVars>>

SanNext ==
    \/ Sanitize
    \/ SanitizeAgain

SanSpec == SanInit /\ [][SanNext]_vars

Returned == spc = "done" /\ ~sres.threw

\* ------------------------------------------------------------ sanitizer: claims

\* C7: whenever sanitizeAnalysis returns, signal_level, action and
\* risk_estimation of the result are in their sets; a field of the parsed
\* object inside its set is kept, and a field that is absent, of another type
\* or outside its set becomes weak, watch, moderate.
C7_EnumFields ==
    (Returned /\ arg.kind = "object") =>
        /\ sres.value.signal_level.t = "str" /\ sres.value.signal_level.s \in VALID_SIGNALS
        /\ sres.value.action.t = "str" /\ sres.value.action.s \in VALID_ACTIONS
        /\ sres.value.risk_estimation.t = "str" /\ sres.value.risk_estimation.s \in VALID_RISKS
        /\ sres.value.signal_level =
              IF Includes(VALID_SIGNALS, arg.signal_level) THEN arg.signal_level ELSE Str(<<"weak">>)
        /\ sres.value.action =
              IF Includes(VALID_ACTIONS, arg.action) THEN arg.action ELSE Str(<<"watch">>)
        /\ sres.value.risk_estimation =
              IF Includes(VALID_RISKS, arg.risk_estimation) THEN arg.risk_estimation
              ELSE Str(<<"moderate">>)

\* A signal_level of the wrong type replaced, beside an action that is kept.
C7_Witness ==
    /\ Returned
    /\ arg.kind = "object"
    /\ arg.signal_level = Num(1)
    /\ arg.action = Str(<<"sell">>)
    /\ sres.value.signal_level = Str(<<"weak">>)
    /\ sres.value.action = Str(<<"sell">>)
    /\ sres.value.risk_estimation = Str(<<"moderate">>)

\* C8: whenever sanitizeAnalysis returns, technical_summary.trend is in its
\* set (neutral when the parsed trend is absent or outside it) and
\* support_levels and resistance_levels are arrays (empty when the parsed
\* values are no arrays), also for a parsed technical_summary object.
C8_SummaryFields ==
    (Returned /\ arg.kind = "object") =>
        LET ts == arg.technical_summary
            out == sres.value.technical_summary
        IN /\ out.trend.t = "str" /\ out.trend.s \in VALID_TRENDS
           /\ ~Includes(VALID_TRENDS, SummaryKey(ts, "trend")) => out.trend = Str(<<"neutral">>)
           /\ out.support_levels.t = "arr"
           /\ out.resistance_levels.t = "arr"
           /\ SummaryKey(ts, "support_levels").t # "arr" => out.support_levels = Arr(0)
           /\ SummaryKey(ts, "resistance_levels").t # "arr" => out.resistance_levels = Arr(0)

\* C9: whenever sanitizeAnalysis returns, confidence is a number in [0, 1]:
\* a numeric input clamped, 0.5 for an input that is no number, and a value in
\* [0, 1] for NaN too.
C9_ConfidenceRange ==
    (Returned /\ arg.kind = "object") =>
        /\ sres.value.confidence.t = "num"
        /\ sres.value.confidence.n >= 0
        /\ sres.value.confidence.n <= 2
        /\ arg.confidence.t = "num" /\ arg.confidence.n < 0 => sres.value.confidence = Num(0)
        /\ arg.confidence.t = "num" /\ arg.confidence.n > 2 => sres.value.confidence = Num(2)
        /\ arg.confidence.t \notin {"num", "nan"} => sres.value.confidence = Num(1)

\* C10: for every parsed object the call returns, with reasoning and
\* time_horizon non-empty strings, trimmed when taken from the input; a blank,
\* absent or non-string reasoning gives the synthesized sentence and a blank,
\* absent or non-string time_horizon gives "N/A".
C10_TextFields ==
    (spc = "done" /\ arg.kind = "object") =>
        /\ ~sres.threw
        /\ sres.value.reasoning.t = "str" /\ sres.value.reasoning.s # <<>>
        /\ sres.value.time_horizon.t = "str" /\ sres.value.time_horizon.s # <<>>
        /\ IF arg.reasoning.t = "str" /\ Trim(arg.reasoning.s) # <<>>
           THEN sres.value.reasoning = Str(Trim(arg.reasoning.s))
           ELSE sres.value.reasoning = Str(SynthReasoning(arg, SYMBOL, PRICE_TEXT))
        /\ IF arg.time_horizon.t = "str" /\ Trim(arg.time_horizon.s) # <<>>
           THEN sres.value.time_horizon = Str(Trim(arg.time_horizon.s))
           ELSE sres.value.time_horizon = Str(<<"N/A">>)

\* C12: sanitizeAnalysis applied to its own result returns that result again,
\* and applied to an object that already is a valid result it returns the
\* object field for field.
C12_Idempotent ==
    /\ spc = "again" => ~sres2.threw /\ sres2.value = sres.value
    /\ (spc \in {"done", "again"} /\ ValidResult(arg)) =>
          ~sres.threw /\ AsParsed(sres.value) = arg

\* A text trimmed and an enum replaced by the first pass and kept by the
\* second.
C12_Witness ==
    /\ spc = "again"
    /\ arg.kind = "object"
    /\ arg.reasoning = Str(<<" ", " ", "x">>)
    /\ arg.action = Str(<<"rocket">>)
    /\ sres.value.reasoning = Str(<<"x">>)
    /\ sres2.value.reasoning = Str(<<"x">>)
    /\ sres2.value.action = Str(<<"watch">>)

\* C13: a provider text taken with a success status ends analyzeStock with a
\* result or with the malformed-response error, whatever the text holds, the
\* JSON literal null and other JSON values that are no objects included.
C13_ResultOrMalformed ==
    chosen # NoCall => outcome \in {"result", "malformed_response"}

\* ------------------------------------------------------------ indicator calculator

\* Prices and indicator values are integers in hundredths; a division rounds
\* down to the hundredth. A calculator returns null or a number v.
NoNumber == [null |-> TRUE, v |-> 0]

Number(v) == [null |-> FALSE, v |-> v]

RECURSIVE Sum(_)
\* reduce((sum, v) => sum + v, 0)
Sum(s) ==
    IF Len(s) = 0 THEN 0
    ELSE IF Len(s) = 1 THEN s[1]
    ELSE LET half == Len(s) \div 2
         IN Sum(SubSeq(s, 1, half)) + Sum(SubSeq(s, half + 1, Len(s)))

\* data.slice(-n) on a list of at least n elements
LastN(s, n) == SubSeq(s, Len(s) - n + 1, Len(s))

RECURSIVE SqrtBetween(_, _, _)
\* The largest r in lo..hi with r * r <= v.
SqrtBetween(v, lo, hi) ==
    IF lo >= hi THEN lo
    ELSE LET mid == (lo + hi + 1) \div 2
         IN IF mid * mid <= v THEN SqrtBetween(v, mid, hi) ELSE SqrtBetween(v, lo, mid - 1)

\* Math.sqrt on hundredths squared
Sqrt(v) == SqrtBetween(v, 0, 40000)

\* The length test with <= : null also at exactly period bars.
calculateSMA_NeedsMore(data, period) ==
    IF Len(data) <= period THEN NoNumber
    ELSE Number(Sum(LastN(data, period)) \div period)

calculateSMA(data, period) ==
    IF Len(data) < period THEN NoNumber
    ELSE Number(Sum(LastN(data, period)) \div period)

\* The last line as 100 / (1 + rs), without the complement to 100.
calculateRSI_NoComplement(data, period) ==
    IF Len(data) < period + 1 THEN NoNumber
    ELSE LET change == [i \in (Len(data) - period + 1)..Len(data) |-> data[i] - data[i - 1]]
             gains == Sum([j \in 1..period |->
                            LET c == change[Len(data) - period + j] IN IF c > 0 THEN c ELSE 0])
             losses == Sum([j \in 1..period |->
                            LET c == change[Len(data) - period + j] IN IF c > 0 THEN 0 ELSE 0 - c])
         IN IF losses = 0 THEN Number(10000)
            ELSE Number((10000 * losses) \div (gains + losses))

\* The loop runs over the last period changes; avgGain / avgLoss is
\* gains / losses, so 100 - 100 / (1 + rs) is 100 - 100 * losses / (gains + losses).
calculateRSI(data, period) ==
    IF Len(data) < period + 1 THEN NoNumber
    ELSE LET change == [i \in (Len(data) - period + 1)..Len(data) |-> data[i] - data[i - 1]]
             gains == Sum([j \in 1..period |->
                            LET c == change[Len(data) - period + j] IN IF c > 0 THEN c ELSE 0])
             losses == Sum([j \in 1..period |->
                            LET c == change[Len(data) - period + j] IN IF c > 0 THEN 0 ELSE 0 - c])
         IN IF losses = 0 THEN Number(10000)
            ELSE Number(10000 - (10000 * losses) \div (gains + losses))

NoBands == [null |-> TRUE, upper |-> 0, middle |-> 0, lower |-> 0]

calculateBollingerBands(data, period, stdDev) ==
    IF Len(data) < period THEN NoBands
    ELSE LET slice == LastN(data, period)
             middle == Sum(slice) \div period
             variance ==
                 Sum([j \in 1..period |-> (slice[j] - middle) * (slice[j] - middle)]) \div period
             sd == Sqrt(variance)
         IN [null |-> FALSE, upper |-> middle + stdDev * sd, middle |-> middle,
             lower |-> middle - stdDev * sd]

RECURSIVE EmaOver(_, _, _, _, _)
\* The loop of calculateEMA over the indices lo..hi, entered with ema and
\* multiplier 2 / (period + 1); the range is halved, the first half being
\* computed (the test on left) before the second is entered.
EmaOver(values, period, lo, hi, ema) ==
    IF lo > hi THEN ema
    ELSE IF lo = hi THEN ((values[lo] - ema) * 2) \div (period + 1) + ema
    ELSE LET mid == (lo + hi) \div 2
             left == EmaOver(values, period, lo, mid, ema)
         IN IF left = left THEN EmaOver(values, period, mid + 1, hi, left) ELSE left

calculateEMA(values, period) ==
    IF Len(values) < period THEN NoNumber
    ELSE Number(EmaOver(values, period, period + 1, Len(values),
                        Sum(SubSeq(values, 1, period)) \div period))

NoMACD == [null |-> TRUE, macd |-> 0, signal |-> 0, histogram |-> 0]

calculateMACD(data) ==
    IF Len(data) < 26 THEN NoMACD
    ELSE LET ema12 == calculateEMA(data, 12)
             ema26 == calculateEMA(data, 26)
         IN IF ema12.null \/ ema26.null THEN NoMACD
            ELSE LET macd == ema12.v - ema26.v
                     signal == (macd * 85) \div 100
                 IN [null |-> FALSE, macd |-> macd, signal |-> signal,
                     histogram |-> macd - signal]

buildTechnicalIndicators(data) ==
    [sma_20 |-> calculateSMA(data, 20),
     sma_50 |-> calculateSMA(data, 50),
     sma_200 |-> calculateSMA(data, 200),
     rsi |-> calculateRSI(data, 14),
     bb |-> calculateBollingerBands(data, 20, 2),
     macd |-> calculateMACD(data)]

\* ------------------------------------------------------------ buildPrompt

\* ${ind.x ? ind.x.toFixed(2) : "N/A"} for a number or null: the condition is
\* the truthiness of the value, and null and 0 are both falsy.
Shown(x) == IF x.null \/ x.v = 0 THEN NA ELSE Fixed(x.v)

\* ${ind.bb ? ind.bb.upper.toFixed(2) : "N/A"}: the condition is the object.
ShownPart(null, v) == IF null THEN NA ELSE Fixed(v)

\* The Technical Indicators section of the prompt, line by line.
buildPrompt(data) ==
    LET ind == buildTechnicalIndicators(data)
    IN [sma_20 |-> Shown(ind.sma_20),
        sma_50 |-> Shown(ind.sma_50),
        sma_200 |-> Shown(ind.sma_200),
        rsi |-> Shown(ind.rsi),
        bb_upper |-> ShownPart(ind.bb.null, ind.bb.upper),
        bb_middle |-> ShownPart(ind.bb.null, ind.bb.middle),
        bb_lower |-> ShownPart(ind.bb.null, ind.bb.lower),
        macd |-> ShownPart(ind.macd.null, ind.macd.macd),
        signal |-> ShownPart(ind.macd.null, ind.macd.signal)]

\* ------------------------------------------------------------ enrichWithIndicators

\* A key of technical_summary that keeps the echoed value when the indicator
\* is null: ind.x ?? analysis.technical_summary.x.
Overwrite_KeepEcho(echo, null, v) == IF null THEN echo ELSE Num(v)

\* One indicator key of the literal, written after ...analysis.technical_summary:
\* ind.x ?? undefined, ind.bb?.x, ind.macd?.macd. The key is set whatever the
\* summary held; undefined is a key without a value.
Overwrite(echo, null, v) == IF null THEN Absent ELSE Num(v)

enrichWithIndicators(analysis, data) ==
    LET ind == buildTechnicalIndicators(data)
        ts == analysis.technical_summary
    IN [analysis EXCEPT !.technical_summary.ind =
          [bb_upper |-> Overwrite(ts.ind.bb_upper, ind.bb.null, ind.bb.upper),
           bb_lower |-> Overwrite(ts.ind.bb_lower, ind.bb.null, ind.bb.lower),
           bb_middle |-> Overwrite(ts.ind.bb_middle, ind.bb.null, ind.bb.middle),
           sma_20 |-> Overwrite(ts.ind.sma_20, ind.sma_20.null, ind.sma_20.v),
           sma_50 |-> Overwrite(ts.ind.sma_50, ind.sma_50.null, ind.sma_50.v),
           sma_200 |-> Overwrite(ts.ind.sma_200, ind.sma_200.null, ind.sma_200.v),
           rsi |-> Overwrite(ts.ind.rsi, ind.rsi.null, ind.rsi.v),
           macd |-> Overwrite(ts.ind.macd, ind.macd.null, ind.macd.macd)]]

\* ------------------------------------------------------------ enrichment harness

\* Numbers of daily bars on both sides of every threshold of the calculators.
HistoryLengths == {0, 14, 15, 19, 20, 25, 26, 49, 50, 199, 200, 201}

\* Price histories: flat, rising, falling, oscillating and irregular closes.
Histories ==
    UNION {{[i \in 1..n |-> 10000],
            [i \in 1..n |-> 10000 + i],
            [i \in 1..n |-> 10300 - i],
            [i \in 1..n |-> 10000 + 100 * (i % 3)],
            [i \in 1..n |-> 10000 + 70 * ((i * i) % 7)]} : n \in HistoryLengths}

\* One indicator key with a value the model echoed for it.
EchoChoices == IndicatorKeys \X {Num(7)}

RECURSIVE EchoesWith(_)
\* The parsed objects whose technical_summary echoes at most n indicators.
EchoesWith(n) ==
    IF n = 0 THEN {EmptyObject}
    ELSE LET fewer == EchoesWith(n - 1)
         IN fewer \cup
            {[o EXCEPT !.technical_summary.t = "obj", !.technical_summary.ind[c[1]] = c[2]] :
                <<o, c>> \in {oc \in fewer \X EchoChoices :
                                 oc[1].technical_summary.ind[oc[2][1]].t = "absent"}}

EnrichInit ==
    /\ reply = NoText
    /\ parsed = NoParse
    /\ arg \in EchoesWith(MaxFields)
    /\ history \in Histories
    /\ prompt = NoPrompt
    /\ sres = NoResult
    /\ sres2 = NoResult
    /\ final = NoValue
    /\ spc = "build"
    /\ ChainOff
    /\ RouteOff

\* const prompt = buildPrompt(request)
Prompt ==
    /\ spc = "build"
    /\ prompt' = buildPrompt(history)
    /\ spc' = "call"
    /\ UNCHANGED <<reply, parsed, arg, sres, sres2, history, final>>
    /\ UNCHANGED <<chainVars, routeVars>>

\* return enrichWithIndicators(analysis, request.stockData)
Enrich ==
    /\ spc = "done"
    /\ ~sres.threw
    /\ final' = enrichWithIndicators(sres.value, history)
    /\ spc' = "enriched"
    /\ UNCHANGED <<reply, parsed, arg, sres, sres2, history, prompt>>
    /\ UNCHANGED <<chainVars, routeVars>>

EnrichNext ==
    \/ Prompt
    \/ Sanitize
    \/ Enrich

EnrichSpec == EnrichInit /\ [][EnrichNext]_vars

\* ------------------------------------------------------------ enrichment: claims

\* The value of one indicator key as the calculators give it for the history.
Computed(k) ==
    CASE k = "sma_20" -> calculateSMA(history, 20)
      [] k = "sma_50" -> calculateSMA(history, 50)
      [] k = "sma_200" -> calculateSMA(history, 200)
      [] k = "rsi" -> calculateRSI(history, 14)
      [] k = "macd" ->
            LET m == calculateMACD(history) IN [null |-> m.null, v |-> m.macd]
      [] k = "bb_upper" ->
            LET b == calculateBollingerBands(history, 20, 2) IN [null |-> b.null, v |-> b.upper]
      [] k = "bb_lower" ->
            LET b == calculateBollingerBands(history, 20, 2) IN [null |-> b.null, v |-> b.lower]
      [] k = "bb_middle" ->
            LET b == calculateBollingerBands(history, 20, 2) IN [null |-> b.null, v |-> b.middle]

\* C11: in the result returned after enrichment every indicator key of
\* technical_summary holds the calculator's value for the request's history,
\* and holds nothing when the calculator gave null, whatever the model echoed
\* for the key.
C11_IndicatorsAuthoritative ==
    spc = "enriched" =>
        \A k \in IndicatorKeys :
            final.technical_summary.ind[k] =
                IF Computed(k).null THEN Absent ELSE Num(Computed(k).v)

\* An echoed sma_200 dropped because the indicator is null, beside an echoed
\* rsi replaced by the computed one.
C11_Witness ==
    /\ spc = "enriched"
    /\ Len(history) = 50
    /\ sres.value.technical_summary.ind.sma_200 = Num(7)
    /\ sres.value.technical_summary.ind.rsi = Num(7)
    /\ final.technical_summary.ind.sma_200 = Absent
    /\ final.technical_summary.ind.rsi.t = "num"
    /\ final.technical_summary.ind.rsi.n # 7
    /\ final.technical_summary.ind.sma_50.t = "num"

\* The periods the moving average is asked for, and every other length of the
\* harness as a period.
Periods == {20, 50, 200} \cup (HistoryLengths \ {0})

\* C22: an indicator is null when the history is shorter than its required
\* length and computed from that length on: SMA(p) needs p bars,
\* Bollinger(20) needs 20, RSI(14) needs 15 and MACD needs 26.
C22_NullBelowLength ==
    spc = "enriched" =>
        LET n == Len(history)
        IN /\ \A p \in Periods : calculateSMA(history, p).null <=> n < p
           /\ calculateBollingerBands(history, 20, 2).null <=> n < 20
           /\ calculateRSI(history, 14).null <=> n < 15
           /\ calculateMACD(history).null <=> n < 26
           /\ LET ind == buildTechnicalIndicators(history)
              IN /\ ind.sma_20.null <=> n < 20
                 /\ ind.sma_50.null <=> n < 50
                 /\ ind.sma_200.null <=> n < 200
                 /\ ind.rsi.null <=> n < 15
                 /\ ind.bb.null <=> n < 20
                 /\ ind.macd.null <=> n < 26

\* A history of exactly 20 bars: SMA 20 and the bands are computed at their
\* required length, RSI is computed above its own, MACD and SMA 50 are null.
C22_Witness ==
    /\ spc = "enriched"
    /\ Len(history) = 20
    /\ ~calculateSMA(history, 20).null
    /\ ~calculateBollingerBands(history, 20, 2).null
    /\ ~calculateRSI(history, 14).null
    /\ calculateMACD(history).null
    /\ calculateSMA(history, 50).null

\* The changes of the closes over the final period bars of the history.
FinalDeltas(period) ==
    {history[i] - history[i - 1] : i \in (Len(history) - period + 1)..Len(history)}

\* C23: on a history of at least period + 1 bars with positive closes
\* calculateRSI returns a value from 0 to 100 (10000 hundredths); it is 100
\* when no close of the final period falls below the close before it, and 0
\* when none rises above it and at least one falls.
C23_RsiRange ==
    (spc = "enriched" /\ Len(history) >= 15 /\ \A i \in DOMAIN history : history[i] > 0) =>
        LET rsi == calculateRSI(history, 14)
            deltas == FinalDeltas(14)
        IN /\ ~rsi.null
           /\ rsi.v >= 0
           /\ rsi.v <= 10000
           /\ (\A d \in deltas : d >= 0) => rsi.v = 10000
           /\ ((\A d \in deltas : d <= 0) /\ (\E d \in deltas : d < 0)) => rsi.v = 0

\* Falling closes: every one of the final 14 changes is a loss and the RSI is 0.
C23_Witness ==
    /\ spc = "enriched"
    /\ Len(history) >= 15
    /\ \A d \in FinalDeltas(14) : d < 0
    /\ calculateRSI(history, 14) = Number(0)

\* C30: the prompt shows "N/A" for SMA 20, SMA 50, SMA 200 and RSI exactly
\* when the calculator returned null for it, and shows every computed value,
\* a computed 0 included, as that number.
C30_NaIffNull ==
    spc \notin {"off", "build"} =>
        \A k \in {"sma_20", "sma_50", "sma_200", "rsi"} :
            /\ prompt[k].na <=> Computed(k).null
            /\ ~Computed(k).null => prompt[k] = Fixed(Computed(k).v)

\* ------------------------------------------------------------ parser harness

\* Most units (a character or an escape) of a string value of a reply.
MaxItems == 2

\* The units a string value is written with: a word, a whitespace character,
\* punctuation, braces, an escaped quote and an escaped backslash.
Items == {<<"AAPL">>, <<" ">>, <<",">>, <<":">>, <<"{">>, <<"}">>, <<BS, QT>>, <<BS, BS>>}

RECURSIVE Contents(_)
\* What stands between the quotes of a string value of at most n units.
Contents(n) ==
    IF n = 0 THEN {<<>>}
    ELSE Contents(n - 1) \cup {c \o it : c \in Contents(n - 1), it \in Items}

\* A complete value of a flat object as the text spells it, with the value
\* JSON.parse reads from it.
CompleteValues ==
    {[spelt |-> <<QT>> \o c \o <<QT>>, val |-> Str(c)] : c \in Contents(MaxItems)}
    \cup {[spelt |-> <<"150">>, val |-> Val("num", <<"150">>, 0)],
          [spelt |-> <<"null">>, val |-> Null]}

\* What is left of a string value cut before its closing quote, after at
\* least one character.
CutContents ==
    {SubSeq(c, 1, n) : <<c, n>> \in {cn \in Contents(MaxItems) \X (1..(2 * MaxItems)) :
                                        cn[2] <= Len(cn[1])}}

\* A flat object of two members, cut in the string value of the second;
\* after is what the text has after a colon and a comma, fence what it has
\* before the object.
CutText(fence, after, v, cut) ==
    [raw |-> fence \o <<"{", QT, "symbol", QT, ":">> \o after \o v.spelt \o <<",">> \o after
             \o <<QT, "signal_level", QT, ":">> \o after \o <<QT>> \o cut,
     complete |-> <<[key |-> <<"symbol">>, val |-> v.val]>>]

CutTexts ==
    {CutText(fence, after, v, cut) :
        fence \in {<<>>, <<FENCE, "json", " ">>}, after \in {<<>>, <<" ">>},
        v \in CompleteValues, cut \in CutContents}

ParseInit ==
    /\ reply \in CutTexts
    /\ parsed = NoParse
    /\ arg = NoValue
    /\ sres = NoResult
    /\ sres2 = NoResult
    /\ history = <<>>
    /\ prompt = NoPrompt
    /\ final = NoValue
    /\ spc = "parse"
    /\ ChainOff
    /\ RouteOff

\* const raw = parseJsonResponse(text)
Parse ==
    /\ spc = "parse"
    /\ parsed' = parseJsonText(reply.raw)
    /\ spc' = "parsed"
    /\ UNCHANGED <<reply, arg, sres, sres2, history, prompt, final>>
    /\ UNCHANGED <<chainVars, routeVars>>

ParseNext == Parse

ParseSpec == ParseInit /\ [][ParseNext]_vars

\* ------------------------------------------------------------ parser: claims

\* C24: a flat JSON object text cut in the middle of a string value is parsed,
\* at the second attempt, to an object that holds every member that was
\* complete before the cut.
C24_RepairKeepsFields ==
    spc = "parsed" =>
        /\ parsed.ok
        /\ parsed.object
        /\ parsed.attempts = 2
        /\ \A i \in DOMAIN reply.complete :
              \E j \in DOMAIN parsed.fields : parsed.fields[j] = reply.complete[i]

\* ------------------------------------------------------------ analyze route

\* 2 * 60 * 60 * 1000 milliseconds, the clock counting hours.
TWO_HOURS == 2

\* The hour at which the clock stops being followed.
MaxTime == 3

\* The POST requests of the user for the symbol that run side by side.
MaxRequests == 1

Requests == 1..MaxRequests

\* The POST requests of the user for the symbol whose steps interleave.
MaxRacing == 2

\* data_type of a stock_data_cache row
Kinds == {"quote", "daily"}

\* A row of stock_data_cache, or the null of .single() when there is none;
\* round names the request whose fetch produced the data (0: an earlier one).
NoEntry == [present |-> FALSE, fetched_at |-> 0, round |-> 0]

Entry(t, round) == [present |-> TRUE, fetched_at |-> t, round |-> round]

\* .gte("fetched_at", twoHoursAgo).single()
CacheRead(entry, twoHoursAgo) ==
    IF entry.present /\ entry.fetched_at >= twoHoursAgo THEN entry ELSE NoEntry

\* The test with || in place of &&.
UseCache_Either(cachedQuote, cachedDaily) == cachedQuote.present \/ cachedDaily.present

\* if (cachedQuote && cachedDaily)
UseCache(cachedQuote, cachedDaily) == cachedQuote.present /\ cachedDaily.present

\* The handler going on to the suggestion store whatever analyzeStock did.
AfterAnalysis_Swallow(ok) == "deactivate"

\* await analyzeStock(...): on to the update of suggestions when it returns,
\* to the catch block (status 500) when it throws.
AfterAnalysis(ok) == IF ok THEN "deactivate" ELSE "responded"

\* The rows with is_active true.
Active(rows) == {i \in DOMAIN rows : rows[i].active}

\* quote or dailyData before it is assigned, from the cache, fetched live.
Unset == [from |-> "none", round |-> 0]

Data(from, round) == [from |-> from, round |-> round]

\* The locals of one request: pc is start, read_quote, read_daily, fetch,
\* upsert, analyze, deactivate, insert, responded; reads are the cache reads
\* made, age the age of the row each read found (-1: no row), cached what the
\* read returned; used are quote and dailyData; writes are the upserts in
\* flight and written those applied; analysis is none, result or error;
\* status is the HTTP status answered (0: none yet); before are the rows of
\* suggestions that were active when the request came in.
NewRequest ==
    [pc |-> "start", before |-> {}, twoHoursAgo |-> 0, reads |-> {},
     age |-> [k \in Kinds |-> -1], cached |-> [k \in Kinds |-> NoEntry],
     used |-> [k \in Kinds |-> Unset], stamp |-> 0, writes |-> {}, written |-> {},
     analysis |-> "none", status |-> 0]

\* The cache rows a request may find: none, or one fetched one or two hours
\* before the first request starts (older once the clock has moved on).
RouteInit ==
    /\ now = TWO_HOURS
    /\ cache \in [Kinds -> {NoEntry} \cup {Entry(t, 0) : t \in 0..(TWO_HOURS - 1)}]
    /\ suggestions \in {<<>>, <<[by |-> 0, active |-> TRUE]>>}
    /\ req = [r \in Requests |-> NewRequest]
    /\ ChainOff
    /\ SanOff

Tick ==
    /\ now < MaxTime
    /\ now' = now + 1
    /\ UNCHANGED <<cache, suggestions, req>>
    /\ UNCHANGED <<chainVars, sanVars>>

\* Lines 9-49: the user, the symbol, the profile and the transactions; an
\* early answer (401, 400, 404) or twoHoursAgo and the first cache read.
Prelude(r, st) ==
    /\ req[r].pc = "start"
    /\ req' = [req EXCEPT ![r] =
                 IF st # 0
                 THEN [@ EXCEPT !.pc = "responded", !.status = st, !.before = Active(suggestions)]
                 ELSE [@ EXCEPT !.pc = "read_quote", !.twoHoursAgo = now - TWO_HOURS,
                                !.before = Active(suggestions)]]
    /\ UNCHANGED <<now, cache, suggestions>>
    /\ UNCHANGED <<chainVars, sanVars>>

\* Lines 50-56: the read of the quote row answers; the daily read is issued.
ReadQuote(r) ==
    /\ req[r].pc = "read_quote"
    /\ req' = [req EXCEPT ![r] =
                 [@ EXCEPT !.pc = "read_daily",
                           !.reads = @ \cup {"quote"},
                           !.age["quote"] =
                               IF cache["quote"].present THEN now - cache["quote"].fetched_at
                               ELSE -1,
                           !.cached["quote"] = CacheRead(cache["quote"], req[r].twoHoursAgo)]]
    /\ UNCHANGED <<now, cache, suggestions>>
    /\ UNCHANGED <<chainVars, sanVars>>

\* Lines 58-77: the read of the daily row answers; the cached data are taken
\* and analyzeStock is called, or both fetches are issued.
ReadDaily(r) ==
    /\ req[r].pc = "read_daily"
    /\ LET cachedQuote == req[r].cached["quote"]
           cachedDaily == CacheRead(cache["daily"], req[r].twoHoursAgo)
           read == [req[r] EXCEPT !.reads = @ \cup {"daily"},
                                  !.age["daily"] =
                                      IF cache["daily"].present
                                      THEN now - cache["daily"].fetched_at ELSE -1,
                                  !.cached["daily"] = cachedDaily]
       IN req' = [req EXCEPT ![r] =
                    IF UseCache(cachedQuote, cachedDaily)
                    THEN [read EXCEPT !.pc = "analyze",
                                      !.used["quote"] = Data("cache", cachedQuote.round),
                                      !.used["daily"] = Data("cache", cachedDaily.round)]
                    ELSE [read EXCEPT !.pc = "fetch"]]
    /\ UNCHANGED <<now, cache, suggestions>>
    /\ UNCHANGED <<chainVars, sanVars>>

\* Lines 74-99: Promise.all of getStockQuote and getDailyData settles: one of
\* them threw (the catch block answers 500), or both returned and the two
\* upserts are issued with fetched_at: new Date().
FetchDone(r, res) ==
    /\ req[r].pc = "fetch"
    /\ req' = [req EXCEPT ![r] =
                 IF res = "ok"
                 THEN [@ EXCEPT !.pc = "upsert",
                                !.used["quote"] = Data("live", r),
                                !.used["daily"] = Data("live", r),
                                !.stamp = now,
                                !.writes = Kinds]
                 ELSE [@ EXCEPT !.pc = "responded", !.status = 500]]
    /\ UNCHANGED <<now, cache, suggestions>>
    /\ UNCHANGED <<chainVars, sanVars>>

\* Lines 80-112: one of the two upserts is applied by the store; after the
\* second the Promise.all resolves and analyzeStock is called.
Upsert(r, k) ==
    /\ req[r].pc = "upsert"
    /\ k \in req[r].writes
    /\ cache' = [cache EXCEPT ![k] = Entry(req[r].stamp, r)]
    /\ req' = [req EXCEPT ![r] =
                 [@ EXCEPT !.writes = @ \ {k},
                           !.written = @ \cup {k},
                           !.pc = IF req[r].writes = {k} THEN "analyze" ELSE "upsert"]]
    /\ UNCHANGED <<now, suggestions>>
    /\ UNCHANGED <<chainVars, sanVars>>

\* Lines 103-120: analyzeStock settles: it threw (the catch block answers
\* 500), or it returned and the update of the active suggestions is issued.
AnalyzeDone(r, ok) ==
    /\ req[r].pc = "analyze"
    /\ req' = [req EXCEPT ![r] =
                 [@ EXCEPT !.analysis = IF ok THEN "result" ELSE "error",
                           !.pc = AfterAnalysis(ok),
                           !.status = IF AfterAnalysis(ok) = "responded" THEN 500 ELSE 0]]
    /\ UNCHANGED <<now, cache, suggestions>>
    /\ UNCHANGED <<chainVars, sanVars>>

\* Lines 115-145: update({is_active: false}) is applied to the active rows;
\* the insert is issued.
Deactivate(r) ==
    /\ req[r].pc = "deactivate"
    /\ suggestions' = [i \in DOMAIN suggestions |-> [suggestions[i] EXCEPT !.active = FALSE]]
    /\ req' = [req EXCEPT ![r].pc = "insert"]
    /\ UNCHANGED <<now, cache>>
    /\ UNCHANGED <<chainVars, sanVars>>

\* Lines 123-154: the insert is applied and the row answered, or it fails and
\* insertError answers 500.
Insert(r, ok) ==
    /\ req[r].pc = "insert"
    /\ suggestions' = IF ok THEN Append(suggestions, [by |-> r, active |-> TRUE])
                      ELSE suggestions
    /\ req' = [req EXCEPT ![r] = [@ EXCEPT !.pc = "responded",
                                          !.status = IF ok THEN 200 ELSE 500]]
    /\ UNCHANGED <<now, cache>>
    /\ UNCHANGED <<chainVars, sanVars>>

RouteNext ==
    \/ Tick
    \/ \E r \in DOMAIN req, st \in {0, 401, 400, 404} : Prelude(r, st)
    \/ \E r \in DOMAIN req : ReadQuote(r)
    \/ \E r \in DOMAIN req : ReadDaily(r)
    \/ \E r \in DOMAIN req, res \in {"ok", "quote_failed", "daily_failed"} : FetchDone(r, res)
    \/ \E r \in DOMAIN req, k \in Kinds : Upsert(r, k)
    \/ \E r \in DOMAIN req, ok \in BOOLEAN : AnalyzeDone(r, ok)
    \/ \E r \in DOMAIN req : Deactivate(r)
    \/ \E r \in DOMAIN req, ok \in BOOLEAN : Insert(r, ok)

RouteSpec == RouteInit /\ [][RouteNext]_vars

\* Requests of one user for one symbol that arrive together: the handler runs
\* once per request and the runs share the two tables. The cache holds no row
\* for the symbol, or the two rows an earlier request wrote.
RaceInit ==
    /\ now = TWO_HOURS
    /\ cache \in {[k \in Kinds |-> NoEntry]}
                 \cup {[k \in Kinds |-> Entry(t, 0)] : t \in 0..(TWO_HOURS - 1)}
    /\ suggestions \in {<<>>, <<[by |-> 0, active |-> TRUE]>>}
    /\ req = [r \in 1..MaxRacing |-> NewRequest]
    /\ ChainOff
    /\ SanOff

RaceSpec == RaceInit /\ [][RouteNext]_vars

\* ------------------------------------------------------------ analyze route: claims

\* The request has its quote and its history and has called analyzeStock.
HasData(r) == req[r].pc \in {"analyze", "deactivate", "insert"} \/ req[r].analysis # "none"

\* C14: a request that reaches the analysis has read both cache rows; it uses
\* the cached quote and the cached history when both reads returned a fresh
\* row, and in every other case it has fetched both live and written both
\* rows back; the quote and the history it uses never come one from the cache
\* and one from a fetch.
C14_CacheAllOrNothing ==
    \A r \in DOMAIN req :
        LET q == req[r]
            bothFresh == q.cached["quote"].present /\ q.cached["daily"].present
        IN /\ (q.used["quote"].from # "none" \/ q.used["daily"].from # "none") =>
                  /\ q.reads = Kinds
                  /\ q.used["quote"].from = q.used["daily"].from
           /\ q.writes \cup q.written # {} => q.reads = Kinds /\ ~bothFresh
           /\ HasData(r) =>
                  /\ q.reads = Kinds
                  /\ IF bothFresh
                     THEN /\ \A k \in Kinds : q.used[k] = Data("cache", q.cached[k].round)
                          /\ q.written = {}
                     ELSE /\ \A k \in Kinds : q.used[k] = Data("live", r)
                          /\ q.written = Kinds

\* The quote row fresh and the daily row missing: both fetched live and both
\* written back before the analysis.
C14_Witness ==
    \E r \in DOMAIN req :
        /\ req[r].pc = "analyze"
        /\ req[r].cached["quote"].present
        /\ ~req[r].cached["daily"].present
        /\ req[r].used["quote"] = Data("live", r)
        /\ req[r].used["daily"] = Data("live", r)
        /\ cache["quote"] = Entry(req[r].stamp, r)
        /\ cache["daily"] = Entry(req[r].stamp, r)

\* C15: a cache read that finds a row returns it exactly when the row is
\* younger than two hours at the time of the read; a row two hours old or
\* older is treated as absent.
C15_FreshnessWindow ==
    \A r \in DOMAIN req :
        \A k \in req[r].reads :
            req[r].age[k] >= 0 => (req[r].cached[k].present <=> req[r].age[k] < TWO_HOURS)

\* C16: a step changes the rows of suggestions only when it is the update or
\* the insert of a request whose analyzeStock call has returned a result; a
\* request whose analysis has not returned one never touches them.
C16_SuggestionsAfterAnalysis ==
    [][suggestions' # suggestions =>
          \E r \in DOMAIN req :
              /\ req[r].pc \in {"deactivate", "insert"}
              /\ req'[r].pc # req[r].pc
              /\ req[r].analysis = "result"]_vars

\* An analysis that threw after a live fetch: the request answered 500 and
\* the earlier suggestion is still the only row, still active.
C16_Witness ==
    \E r \in DOMAIN req :
        /\ req[r].pc = "responded"
        /\ req[r].status = 500
        /\ req[r].analysis = "error"
        /\ req[r].written = Kinds
        /\ suggestions = <<[by |-> 0, active |-> TRUE]>>


\* ------------------------------------------------------------ analyze route: more claims

\* C26: the user has at most one suggestion marked active for the symbol,
\* also while and after two requests for it interleave.
C26_OneActive == Cardinality(Active(suggestions)) <= 1

\* A row of the cache that a read made now would return.
Fresh(k) == CacheRead(cache[k], now - TWO_HOURS).present

\* C27: when the quote row and the daily row are both present and fresh they
\* hold data of the same fetch round, and a request that took both from the
\* cache analyses a quote and a history of the same round.
C27_SameRound ==
    /\ (Fresh("quote") /\ Fresh("daily")) => cache["quote"].round = cache["daily"].round
    /\ \A r \in DOMAIN req :
          (req[r].used["quote"].from = "cache" /\ req[r].used["daily"].from = "cache") =>
              req[r].used["quote"].round = req[r].used["daily"].round

\* C28: a request that has answered with an error status, no other request
\* having come in, leaves the active suggestions as they were when it came in.
C28_ErrorLeavesActive ==
    \A r \in DOMAIN req :
        (req[r].status >= 400 /\ \A o \in DOMAIN req \ {r} : req[o].pc = "start") =>
            Active(suggestions) = req[r].before
====
